---- MODULE Spec2Model ----
(***************************************************************************)
(* Load-generation and measurement harness of mazarskov/research:          *)
(* the MQTT, CoAP and HTTP sender engines and receiver engines of          *)
(* src/data-gather.  One behaviour of the model is one run of one engine   *)
(* (the variable kind), with its configuration drawn at Init.              *)
(*                                                                         *)
(* Granularity.  The MQTT engines use OS threads: every shared read and    *)
(* write of a worker, of the main thread and of the signal handler is its  *)
(* own step.  The CoAP and HTTP engines run on one asyncio event loop: a   *)
(* step of a task is the code between two suspension points (await).       *)
(* Handlers installed with signal.signal run on the main thread between    *)
(* two byte codes; the CoAP sender's handler, which ends the process, is   *)
(* delivered between two steps of the loop.                                *)
(*                                                                         *)
(* Specifications.  Spec: every engine, no fairness.  ReceiverSpec: the    *)
(* receiver engines under fair scheduling of their own threads and tasks.  *)
(* ReportSpec: generate_report applied to any counter and any series.      *)
(***************************************************************************)
EXTENDS Integers, Sequences, FiniteSets, TLC

(* ------------------------------ bounds ------------------------------- *)
MaxWorkers == 2      \* largest --concurrency
MaxCount == 2        \* largest --count
MaxSent == 2         \* cap on recorded messages of a run without count limit
MaxRate == 2         \* largest --rate, in units of 1/RateDen messages/sec
RateDen == 2         \* denominator of the rate unit
MaxDuration == 1     \* largest --time
MaxStopCalls == 2    \* further calls of stop() in a row
MaxReceived == 3     \* messages a receiver is sent
MaxTotal == 3        \* largest counter generate_report is applied to
MaxSeries == 3       \* longest series generate_report is applied to
MaxStamp == 2        \* largest timestamp of such a series
MaxAggTotal == 2     \* largest total_sent / total_received of a report file
MaxAggSeries == 2    \* longest timestamps array of a report file
MaxTime == 4         \* last instant of a paced run
MaxPaced == 3        \* largest message count of a paced run
MaxSeqNo == 10       \* largest sequence number given to generate_payload
MaxPayloadSize == 240 \* largest target payload size

Workers == 1..MaxWorkers
Senders == {"mqtt_sender", "coap_sender", "http_sender"}
Receivers == {"mqtt_receiver", "coap_receiver", "http_receiver"}

VARIABLES
    kind,               \* which engine this run is
    message_count,      \* self.message_count
    duration,           \* self.duration
    rate,               \* self.rate, numerator over RateDen
    concurrency,        \* self.concurrency
    running,            \* self.running
    sent_messages,      \* self.sent_messages
    received_messages,  \* self.received_messages
    timestamps,         \* self.timestamps
    clock,              \* next value time.time_ns() returns
    elapsed,            \* the configured duration has passed since start
    lock,               \* holder of self.lock (a worker), 0 when free
    pc,                 \* position of each sender worker
    timestamp,          \* local "timestamp" of each worker
    reg,                \* value of self.sent_messages a thread has loaded
    local_seq,          \* local_seq of each worker
    mainPc,             \* position of run() / run_server()
    sigPc,              \* position of the signal.signal handler
    reports,            \* every report file content written, oldest first
    seq,                \* HTTP sender: seq of run()
    tasks,              \* HTTP sender: state of each scheduled send_message task
    taskTs,             \* HTTP sender: start_time of each send_message task
    semaphore,          \* HTTP sender: free permits of self.semaphore
    shutdown_event,     \* receivers: self.shutdown_event is set
    handlerPc,          \* MQTT receiver: position of on_message on the network thread
    monPc,              \* receivers: position of monitor_duration
    triggers,           \* asyncio receivers: trigger_shutdown tasks created, not yet run
    serving,            \* receivers: the transport still delivers messages
    failedCounted,      \* history: a send the transport refused stands in the counter
    attempts,           \* history: send attempts of each worker
    afterStop,          \* history: attempts a worker began with running False
    paced,              \* history: the worker slept since its last attempt
    late,               \* history: HTTP tasks scheduled with running False
    stopCalls,          \* history: further calls of stop()/shutdown_server() in a row
    sigRunning,         \* history: a signal arrived while running was True
    thread_start_time,  \* pacing: thread_start_time / task_start_time of the worker
    payload_size,       \* self.payload_size
    payload,            \* generate_payload: byte length of the payload built last
    sender_file,        \* aggregator: content of the sender report file
    receiver_file,      \* aggregator: content of the receiver report file
    sender_data,        \* aggregator: self.sender_data
    receiver_data,      \* aggregator: self.receiver_data
    metrics,            \* aggregator: result of calculate_metrics
    output_file,        \* aggregator: content of the output file
    seqs                \* history: the seq fields of the payloads built, in order

cfgVars == <<kind, message_count, duration, rate, concurrency>>
engVars == <<running, sent_messages, received_messages, timestamps>>
envVars == <<clock, elapsed>>
wrkVars == <<lock, pc, timestamp, reg, local_seq>>
httpVars == <<seq, tasks, taskTs, semaphore>>
rcvVars == <<shutdown_event, handlerPc, monPc, triggers, serving>>
histVars == <<failedCounted, attempts, afterStop, paced, late, stopCalls, sigRunning>>
toolVars == <<thread_start_time, payload_size, payload, sender_file, receiver_file,
              sender_data, receiver_data, metrics, output_file>>
auxVars == <<toolVars, seqs>>
vars == <<cfgVars, engVars, envVars, wrkVars, httpVars, rcvVars, mainPc, sigPc,
          reports, histVars, auxVars>>

(* ------------------------------ helpers ------------------------------ *)

\* int(self.rate * self.duration * self.concurrency)
DerivedCount(r, d, c) == (r * d * c) \div RateDen

\* "self.rate > 0 and self.duration > 0" replaces the explicit count
EffectiveCount(m, r, d, c) == IF r > 0 /\ d > 0 THEN DerivedCount(r, d, c) ELSE m

\* run(): the main thread/task sleeps for the duration and then stops
DurationPath(m, r, d) == d > 0 /\ (r = 0 \/ m = 0)

\* mutant: the seq field is the counter before its increment
SeqBefore(n) == n - 1

\* "self.generate_payload(self.sent_messages)": the seq field of the payload
\* is the counter as read once it was incremented
SeqOf(n) == n

\* mutant: the limit is taken as met one message early
LimitReachedEarly(m, n) == m > 0 /\ n + 1 >= m

\* mutant: the limit is noticed one message late
LimitReachedLate(m, n) == m > 0 /\ n > m

\* "self.message_count > 0 and self.sent_messages >= self.message_count"
LimitReached(m, n) == m > 0 /\ n >= m

\* mutant: the loop never tests the flag
LoopCondIgnored(run) == TRUE

\* "while self.running"
LoopCond(run) == run

\* mutant: the section is left with the lock still held
ReleaseNever(l, w) == l

\* the end of "with self.lock" / "async with self.lock", also when the
\* section is left by break, continue or an exception
Release(l, w) == IF l = w THEN 0 ELSE l

\* mutant: the section is entered without the lock
LockFreeIgnored(l) == TRUE

\* "with self.lock" / "async with self.lock" can be entered
LockFree(l) == l = 0

\* mutant: the guard of stop() is inverted
ShouldStopInverted(run) == ~run

\* stop(): "if not self.running: return"
ShouldStop(run) == run

\* time.time_ns(): the clock does not go back between two reads
Tick(c) == c + 1

\* mutant: the entry is put in front
RecordFront(s, t) == <<t>> \o s

\* mutant: the series is replaced by its newest entry
RecordLast(s, t) == <<t>>

\* "self.timestamps.append(timestamp)"
Record(s, t) == Append(s, t)

\* mutant: the assignment flips the flag
StoppedFlipped(run) == ~run

\* stop(): "self.running = False"
Stopped(run) == FALSE

\* mutant: the event is not set
TriggerShutdownLost(ev) == ev

\* trigger_shutdown: "self.shutdown_event.set()"
TriggerShutdown(ev) == TRUE

\* mutant: loop_stop() does not wait for the network thread
NetworkThreadJoinedIgnored(h) == TRUE

\* MqttReceiver.stop: client.loop_stop() returns when the network thread,
\* and with it a running on_message, has ended
NetworkThreadJoined(h) == h = "idle"

\* generate_report: time_elapsed, in clock units, of the series s
TimeElapsed(s) == IF Len(s) >= 2 THEN s[Len(s)] - s[1] ELSE 0

\* mutant: the division is not guarded
PositiveIgnored(x) == TRUE

\* generate_report: "if time_elapsed > 0"
Positive(x) == x > 0

\* generate_report: msgs_per_sec, the quotient msgs / per kept exact; 0 is 0/1
MsgsPerSec(n, s) ==
    IF Positive(TimeElapsed(s))
    THEN [msgs |-> n, per |-> TimeElapsed(s)]
    ELSE [msgs |-> 0, per |-> 1]

\* the report generate_report writes for counter n and series s
Report(n, s) ==
    [total |-> n,
     timestamps |-> s,
     start_time |-> IF Len(s) > 0 THEN s[1] ELSE 0,
     end_time |-> IF Len(s) > 0 THEN s[Len(s)] ELSE 0,
     avg_rate_per_sec |-> MsgsPerSec(n, s)]

\* mutant: stop() without its guard
StopReportsUnguarded(run, reps, n, s) == Append(reps, Report(n, s))

\* stop()/shutdown_server() where nothing suspends it between the guard and
\* generate_report: the report files written after the call
StopReports(run, reps, n, s) ==
    IF ShouldStop(run) THEN Append(reps, Report(n, s)) ELSE reps

\* a worker that has ended: never started, returned, killed, or ended by an
\* exception
Finished(w) == pc[w] \in {"idle", "done", "dead", "crashed"}

\* workers that have passed the loop test and not yet counted their message
InFlight == {w \in Workers : pc[w] \in {"acquire", "read", "write"}}

\* the model lets a run without an effective count limit record MaxSent
\* messages; afterwards its workers only wait
CapOK(n) ==
    \/ message_count > 0 /\ message_count <= MaxSent
    \/ n + Cardinality(InFlight) < MaxSent

(* ------------------------------- Init -------------------------------- *)
\* no file, no value
None == "none"

\* the pacing reference, the payload and the aggregator's files and fields
\* play no part in the run
AuxIdle ==
    /\ thread_start_time = 0
    /\ payload_size = 0
    /\ payload = 0
    /\ sender_file = None
    /\ receiver_file = None
    /\ sender_data = None
    /\ receiver_data = None
    /\ metrics = None
    /\ output_file = None
    /\ seqs = <<>>

Init ==
    /\ kind \in Senders \cup Receivers
    /\ message_count \in 0..MaxCount
    /\ duration \in 0..MaxDuration
    /\ rate \in IF kind \in Senders THEN 0..MaxRate ELSE {0}
    /\ concurrency \in IF kind \in Senders THEN 1..MaxWorkers ELSE {1}
    /\ running = TRUE
    /\ sent_messages = 0
    /\ received_messages = 0
    /\ timestamps = <<>>
    /\ clock = 1
    /\ elapsed = FALSE
    /\ lock = 0
    /\ pc = [w \in Workers |-> "idle"]
    /\ timestamp = [w \in Workers |-> 0]
    /\ reg = [w \in Workers |-> 0]
    /\ local_seq = [w \in Workers |-> 0]
    /\ mainPc = "start"
    /\ sigPc = "none"
    /\ reports = <<>>
    /\ seq = 0
    /\ tasks = <<>>
    /\ taskTs = <<>>
    /\ semaphore = 0
    /\ shutdown_event = FALSE
    /\ handlerPc = "idle"
    /\ monPc = "none"
    /\ triggers = 0
    /\ serving = FALSE
    /\ failedCounted = FALSE
    /\ attempts = [w \in Workers |-> 0]
    /\ afterStop = [w \in Workers |-> 0]
    /\ paced = [w \in Workers |-> TRUE]
    /\ late = {}
    /\ stopCalls = 0
    /\ sigRunning = FALSE
    /\ AuxIdle

\* the main thread executes its own code only while no handler runs on it
MainFree == sigPc \in {"none", "returned"}

(* --------------------------- environment ----------------------------- *)
\* the configured duration passes
Elapse ==
    /\ duration > 0 /\ ~elapsed /\ mainPc # "start"
    /\ elapsed' = TRUE
    /\ UNCHANGED <<cfgVars, engVars, clock, wrkVars, mainPc, sigPc, reports, histVars, httpVars, rcvVars,
                   auxVars>>

(* ---------------------------- MQTT sender ---------------------------- *)
\* MqttSender.run, lines 131-145: derive the count, start the threads
MqttRunStart ==
    /\ kind = "mqtt_sender" /\ mainPc = "start" /\ MainFree
    /\ message_count' = EffectiveCount(message_count, rate, duration, concurrency)
    /\ pc' = [w \in Workers |-> IF w <= concurrency THEN "loop" ELSE "idle"]
    /\ mainPc' = IF DurationPath(message_count', rate, duration) THEN "sleep" ELSE "join"
    /\ UNCHANGED <<kind, duration, rate, concurrency, engVars, envVars,
                   lock, timestamp, reg, local_seq, sigPc, reports, histVars, httpVars, rcvVars,
                   auxVars>>

\* send_messages, line 63: "while self.running"
MqttLoop(w) ==
    /\ kind = "mqtt_sender" /\ pc[w] = "loop"
    /\ LoopCond(running) => CapOK(sent_messages)
    /\ pc' = [pc EXCEPT ![w] = IF LoopCond(running) THEN "acquire" ELSE "done"]
    /\ UNCHANGED <<cfgVars, engVars, envVars, lock, timestamp, reg, local_seq,
                   mainPc, sigPc, reports, histVars, httpVars, rcvVars,
                   auxVars>>

\* lines 64-68: take the lock, test the count limit
MqttAcquire(w) ==
    /\ kind = "mqtt_sender" /\ pc[w] = "acquire"
    /\ LockFree(lock)
    /\ lock' = w
    /\ pc' = [pc EXCEPT ![w] = IF LimitReached(message_count, sent_messages)
                               THEN "stop_check" ELSE "read"]
    /\ UNCHANGED <<cfgVars, engVars, envVars, timestamp, reg, local_seq,
                   mainPc, sigPc, reports, histVars, httpVars, rcvVars,
                   auxVars>>

\* lines 70-71: read the clock, load self.sent_messages
MqttRead(w) ==
    /\ kind = "mqtt_sender" /\ pc[w] = "read"
    /\ timestamp' = [timestamp EXCEPT ![w] = clock]
    /\ clock' = Tick(clock)
    /\ reg' = [reg EXCEPT ![w] = sent_messages]
    /\ pc' = [pc EXCEPT ![w] = "write"]
    /\ UNCHANGED <<cfgVars, engVars, elapsed, lock, local_seq,
                   mainPc, sigPc, reports, histVars, httpVars, rcvVars,
                   auxVars>>

\* line 71: store self.sent_messages
MqttWrite(w) ==
    /\ kind = "mqtt_sender" /\ pc[w] = "write"
    /\ sent_messages' = reg[w] + 1
    /\ pc' = [pc EXCEPT ![w] = "append"]
    /\ UNCHANGED <<cfgVars, running, received_messages, timestamps, envVars,
                   lock, timestamp, reg, local_seq, mainPc, sigPc, reports, histVars, httpVars, rcvVars,
                   auxVars>>

\* lines 72-82: append the timestamp, publish (the result of publish is
\* ignored), advance local_seq, leave the lock
MqttAppend(w) ==
    /\ kind = "mqtt_sender" /\ pc[w] = "append"
    /\ timestamps' = Record(timestamps, timestamp[w])
    /\ \E ok \in BOOLEAN : failedCounted' = (failedCounted \/ ~ok)
    /\ local_seq' = [local_seq EXCEPT ![w] = @ + 1]
    /\ attempts' = [attempts EXCEPT ![w] = @ + 1]
    /\ afterStop' = [afterStop EXCEPT ![w] = IF running THEN @ ELSE @ + 1]
    /\ paced' = [paced EXCEPT ![w] = FALSE]
    /\ seqs' = Append(seqs, SeqOf(sent_messages))
    /\ lock' = Release(lock, w)
    /\ pc' = [pc EXCEPT ![w] = "pace"]
    /\ UNCHANGED <<cfgVars, running, sent_messages, received_messages, envVars,
                   timestamp, reg, mainPc, sigPc, reports, late, stopCalls, sigRunning,
                   httpVars, rcvVars, toolVars>>

\* lines 85-92: sleep until the pacing deadline (or 1 ms)
MqttPace(w) ==
    /\ kind = "mqtt_sender" /\ pc[w] = "pace"
    /\ paced' = [paced EXCEPT ![w] = TRUE]
    /\ pc' = [pc EXCEPT ![w] = "loop"]
    /\ UNCHANGED <<cfgVars, engVars, envVars, lock, timestamp, reg, local_seq,
                   mainPc, sigPc, reports, failedCounted, attempts, afterStop,
                   late, stopCalls, sigRunning, httpVars, rcvVars, auxVars>>

\* stop() called by a worker at line 67, line 97: "if not self.running";
\* on return the worker breaks, leaves the lock and disconnects
MqttWorkerStopCheck(w) ==
    /\ kind = "mqtt_sender" /\ pc[w] = "stop_check"
    /\ IF ShouldStop(running)
       THEN /\ pc' = [pc EXCEPT ![w] = "stop_set"]
            /\ lock' = lock
       ELSE /\ pc' = [pc EXCEPT ![w] = "done"]
            /\ lock' = Release(lock, w)
    /\ UNCHANGED <<cfgVars, engVars, envVars, timestamp, reg, local_seq,
                   mainPc, sigPc, reports, histVars, httpVars, rcvVars,
                   auxVars>>

\* line 101: self.running = False
MqttWorkerStopSet(w) ==
    /\ kind = "mqtt_sender" /\ pc[w] = "stop_set"
    /\ running' = Stopped(running)
    /\ pc' = [pc EXCEPT ![w] = "stop_report"]
    /\ UNCHANGED <<cfgVars, sent_messages, received_messages, timestamps, envVars,
                   lock, timestamp, reg, local_seq, mainPc, sigPc, reports, histVars, httpVars, rcvVars,
                   auxVars>>

\* lines 102-103: generate_report, then sys.exit ends the thread, which
\* leaves the lock on the way out
MqttWorkerStopReport(w) ==
    /\ kind = "mqtt_sender" /\ pc[w] = "stop_report"
    /\ reports' = Append(reports, Report(sent_messages, timestamps))
    /\ lock' = Release(lock, w)
    /\ pc' = [pc EXCEPT ![w] = "dead"]
    /\ UNCHANGED <<cfgVars, engVars, envVars, timestamp, reg, local_seq,
                   mainPc, sigPc, histVars, httpVars, rcvVars, auxVars>>

\* run, lines 143-145: time.sleep(self.duration) returns; stop() begins
MqttMainWake ==
    /\ kind = "mqtt_sender" /\ mainPc = "sleep" /\ MainFree
    /\ elapsed
    /\ mainPc' = "stop_check"
    /\ UNCHANGED <<cfgVars, engVars, envVars, wrkVars, sigPc, reports, histVars, httpVars, rcvVars,
                   auxVars>>

\* stop() on the main thread, line 97
MqttMainStopCheck ==
    /\ kind = "mqtt_sender" /\ mainPc = "stop_check" /\ MainFree
    /\ mainPc' = IF ShouldStop(running) THEN "stop_set" ELSE "join"
    /\ UNCHANGED <<cfgVars, engVars, envVars, wrkVars, sigPc, reports, histVars, httpVars, rcvVars,
                   auxVars>>

\* line 101
MqttMainStopSet ==
    /\ kind = "mqtt_sender" /\ mainPc = "stop_set" /\ MainFree
    /\ running' = Stopped(running)
    /\ mainPc' = "stop_report"
    /\ UNCHANGED <<cfgVars, sent_messages, received_messages, timestamps, envVars,
                   wrkVars, sigPc, reports, histVars, httpVars, rcvVars,
                   auxVars>>

\* lines 102-103: generate_report, sys.exit unwinds the main thread; the
\* interpreter then waits for the worker threads
MqttMainStopReport ==
    /\ kind = "mqtt_sender" /\ mainPc = "stop_report" /\ MainFree
    /\ reports' = Append(reports, Report(sent_messages, timestamps))
    /\ mainPc' = "exiting"
    /\ UNCHANGED <<cfgVars, engVars, envVars, wrkVars, sigPc, histVars, httpVars, rcvVars,
                   auxVars>>

\* lines 147-148 (thread.join) and the interpreter's wait at exit
MqttJoin ==
    /\ kind = "mqtt_sender" /\ mainPc \in {"join", "exiting"}
    /\ sigPc \in {"none", "returned", "exited"}
    /\ \A w \in Workers : Finished(w)
    /\ mainPc' = "done"
    /\ UNCHANGED <<cfgVars, engVars, envVars, wrkVars, sigPc, reports, histVars, httpVars, rcvVars,
                   auxVars>>

\* SIGINT/SIGTERM: signal_handler, lines 150-152, starts on the main thread
MqttSignal ==
    /\ kind = "mqtt_sender" /\ sigPc = "none" /\ mainPc # "done"
    /\ sigRunning' = running
    /\ sigPc' = "check"
    /\ UNCHANGED <<cfgVars, engVars, envVars, wrkVars, mainPc, reports, failedCounted, attempts, afterStop, paced, late, stopCalls, httpVars, rcvVars,
                   auxVars>>

\* stop() in the handler, line 97; on return the main thread resumes
MqttSigStopCheck ==
    /\ kind = "mqtt_sender" /\ sigPc = "check"
    /\ sigPc' = IF ShouldStop(running) THEN "set" ELSE "returned"
    /\ UNCHANGED <<cfgVars, engVars, envVars, wrkVars, mainPc, reports, histVars, httpVars, rcvVars,
                   auxVars>>

\* line 101
MqttSigStopSet ==
    /\ kind = "mqtt_sender" /\ sigPc = "set"
    /\ running' = Stopped(running)
    /\ sigPc' = "report"
    /\ UNCHANGED <<cfgVars, sent_messages, received_messages, timestamps, envVars,
                   wrkVars, mainPc, reports, histVars, httpVars, rcvVars,
                   auxVars>>

\* lines 102-103: generate_report, sys.exit raises SystemExit in the main
\* thread, whatever it was doing
MqttSigStopReport ==
    /\ kind = "mqtt_sender" /\ sigPc = "report"
    /\ reports' = Append(reports, Report(sent_messages, timestamps))
    /\ sigPc' = "exited"
    /\ mainPc' = "exiting"
    /\ UNCHANGED <<cfgVars, engVars, envVars, wrkVars, histVars, httpVars, rcvVars,
                   auxVars>>

MqttSenderNext ==
    \/ MqttRunStart
    \/ \E w \in Workers : MqttLoop(w)
    \/ \E w \in Workers : MqttAcquire(w)
    \/ \E w \in Workers : MqttRead(w)
    \/ \E w \in Workers : MqttWrite(w)
    \/ \E w \in Workers : MqttAppend(w)
    \/ \E w \in Workers : MqttPace(w)
    \/ \E w \in Workers : MqttWorkerStopCheck(w)
    \/ \E w \in Workers : MqttWorkerStopSet(w)
    \/ \E w \in Workers : MqttWorkerStopReport(w)
    \/ MqttMainWake
    \/ MqttMainStopCheck
    \/ MqttMainStopSet
    \/ MqttMainStopReport
    \/ MqttJoin
    \/ MqttSignal
    \/ MqttSigStopCheck
    \/ MqttSigStopSet
    \/ MqttSigStopReport

(* ---------------------------- CoAP sender ---------------------------- *)
\* CoapSender.run, lines 131-141: derive the count, create the tasks
CoapRunStart ==
    /\ kind = "coap_sender" /\ mainPc = "start"
    /\ message_count' = EffectiveCount(message_count, rate, duration, concurrency)
    /\ pc' = [w \in Workers |-> IF w <= concurrency THEN "loop" ELSE "idle"]
    /\ mainPc' = IF DurationPath(message_count', rate, duration) THEN "sleep" ELSE "join"
    /\ UNCHANGED <<kind, duration, rate, concurrency, engVars, envVars,
                   lock, timestamp, reg, local_seq, sigPc, reports, histVars,
                   httpVars, rcvVars, auxVars>>

\* send_messages, line 56: "while self.running"
CoapLoop(w) ==
    /\ kind = "coap_sender" /\ pc[w] = "loop"
    /\ LoopCond(running) => CapOK(sent_messages)
    /\ pc' = [pc EXCEPT ![w] = IF LoopCond(running) THEN "acquire" ELSE "done"]
    /\ UNCHANGED <<cfgVars, engVars, envVars, lock, timestamp, reg, local_seq,
                   mainPc, sigPc, reports, histVars, httpVars, rcvVars,
                   auxVars>>

\* lines 57-60: the lock is entered with the count limit reached: stop(),
\* break, the lock is left
CoapLimit(w) ==
    /\ kind = "coap_sender" /\ pc[w] = "acquire"
    /\ LockFree(lock)
    /\ LimitReached(message_count, sent_messages)
    /\ running' = FALSE
    /\ reports' = StopReports(running, reports, sent_messages, timestamps)
    /\ pc' = [pc EXCEPT ![w] = "done"]
    /\ UNCHANGED <<cfgVars, sent_messages, received_messages, timestamps, envVars,
                   lock, timestamp, reg, local_seq, mainPc, sigPc, histVars,
                   httpVars, rcvVars, auxVars>>

\* mutant: the lock is left before the response is awaited
ReleasedForRequest(w) == 0

\* lines 57-71: the request is awaited inside "async with self.lock", the
\* lock held by worker w
HeldForRequest(w) == w

\* lines 57-71: the lock is entered below the limit: count, append, build
\* the request and wait for the response with the lock held
CoapRecord(w) ==
    /\ kind = "coap_sender" /\ pc[w] = "acquire"
    /\ LockFree(lock)
    /\ ~LimitReached(message_count, sent_messages)
    /\ lock' = HeldForRequest(w)
    /\ timestamp' = [timestamp EXCEPT ![w] = clock]
    /\ clock' = Tick(clock)
    /\ sent_messages' = sent_messages + 1
    /\ timestamps' = Record(timestamps, clock)
    /\ attempts' = [attempts EXCEPT ![w] = @ + 1]
    /\ afterStop' = [afterStop EXCEPT ![w] = IF running THEN @ ELSE @ + 1]
    /\ paced' = [paced EXCEPT ![w] = FALSE]
    /\ seqs' = Append(seqs, SeqOf(sent_messages'))
    /\ pc' = [pc EXCEPT ![w] = "request"]
    /\ UNCHANGED <<cfgVars, running, received_messages, elapsed, reg, local_seq,
                   mainPc, sigPc, reports, failedCounted, late, stopCalls, sigRunning,
                   httpVars, rcvVars, toolVars>>

\* lines 71-73, 81-86: a response arrives; local_seq advances, the lock is left
CoapResponse(w) ==
    /\ kind = "coap_sender" /\ pc[w] = "request"
    /\ local_seq' = [local_seq EXCEPT ![w] = @ + 1]
    /\ lock' = Release(lock, w)
    /\ pc' = [pc EXCEPT ![w] = "pace"]
    /\ UNCHANGED <<cfgVars, engVars, envVars, timestamp, reg, mainPc, sigPc,
                   reports, histVars, httpVars, rcvVars, auxVars>>

\* lines 74-79: timeout or error: "continue" leaves the lock and goes back to
\* the loop test
CoapFailure(w) ==
    /\ kind = "coap_sender" /\ pc[w] = "request"
    /\ failedCounted' = TRUE
    /\ lock' = Release(lock, w)
    /\ pc' = [pc EXCEPT ![w] = "loop"]
    /\ UNCHANGED <<cfgVars, engVars, envVars, timestamp, reg, local_seq, mainPc,
                   sigPc, reports, attempts, afterStop, paced, late, stopCalls, sigRunning,
                   httpVars, rcvVars, auxVars>>

\* lines 88-95: sleep until the pacing deadline (or 1 ms)
CoapPace(w) ==
    /\ kind = "coap_sender" /\ pc[w] = "pace"
    /\ paced' = [paced EXCEPT ![w] = TRUE]
    /\ pc' = [pc EXCEPT ![w] = "loop"]
    /\ UNCHANGED <<cfgVars, engVars, envVars, lock, timestamp, reg, local_seq,
                   mainPc, sigPc, reports, failedCounted, attempts, afterStop,
                   late, stopCalls, sigRunning, httpVars, rcvVars, auxVars>>

\* run, lines 141-143: asyncio.sleep(self.duration) returns, stop()
CoapMainStop ==
    /\ kind = "coap_sender" /\ mainPc = "sleep"
    /\ elapsed
    /\ running' = FALSE
    /\ reports' = StopReports(running, reports, sent_messages, timestamps)
    /\ mainPc' = "join"
    /\ UNCHANGED <<cfgVars, sent_messages, received_messages, timestamps, envVars,
                   wrkVars, sigPc, histVars, httpVars, rcvVars, auxVars>>

\* run, line 145: asyncio.gather returns (or the cancelled run() ends)
CoapGather ==
    /\ kind = "coap_sender" /\ mainPc \in {"join", "exiting"}
    /\ \A w \in Workers : Finished(w) /\ pc[w] # "crashed"
    /\ mainPc' = "done"
    /\ UNCHANGED <<cfgVars, engVars, envVars, wrkVars, sigPc, reports, histVars,
                   httpVars, rcvVars, auxVars>>

\* SIGINT/SIGTERM: signal_handler, lines 147-152, runs on the loop's thread:
\* it queues async_shutdown, blocks the loop for a second and raises
\* SystemExit; asyncio.run then cancels every task and runs the queued
\* async_shutdown, i.e. stop(), before it closes the loop
CoapSignal ==
    /\ kind = "coap_sender" /\ sigPc = "none" /\ mainPc \notin {"start", "done"}
    /\ sigRunning' = running
    /\ sigPc' = "exited"
    /\ pc' = [w \in Workers |-> IF Finished(w) THEN pc[w] ELSE "dead"]
    /\ lock' = 0
    /\ running' = FALSE
    /\ reports' = StopReports(running, reports, sent_messages, timestamps)
    /\ mainPc' = "exiting"
    /\ UNCHANGED <<cfgVars, sent_messages, received_messages, timestamps, envVars,
                   timestamp, reg, local_seq, failedCounted, attempts, afterStop, paced, late, stopCalls, httpVars, rcvVars,
                   auxVars>>

\* a further call of stop() once run() has returned
CoapStopAgain ==
    /\ kind = "coap_sender" /\ mainPc = "done" /\ stopCalls < MaxStopCalls
    /\ stopCalls' = stopCalls + 1
    /\ running' = FALSE
    /\ reports' = StopReports(running, reports, sent_messages, timestamps)
    /\ UNCHANGED <<cfgVars, sent_messages, received_messages, timestamps, envVars,
                   wrkVars, mainPc, sigPc, failedCounted, attempts, afterStop,
                   paced, late, sigRunning, httpVars, rcvVars, auxVars>>

CoapSenderNext ==
    \/ CoapRunStart
    \/ \E w \in Workers : CoapLoop(w)
    \/ \E w \in Workers : CoapLimit(w)
    \/ \E w \in Workers : CoapRecord(w)
    \/ \E w \in Workers : CoapResponse(w)
    \/ \E w \in Workers : CoapFailure(w)
    \/ \E w \in Workers : CoapPace(w)
    \/ CoapMainStop
    \/ CoapGather
    \/ CoapSignal
    \/ CoapStopAgain

(* ---------------------------- HTTP sender ---------------------------- *)
\* AsyncHttpSender.run, line 90: int(self.rate * self.duration)
HttpEffectiveCount(m, r, d) == IF r > 0 /\ d > 0 THEN (r * d) \div RateDen ELSE m

\* run, lines 95-102: the loop goes on
HttpLoopCond(run, m, n, d, e) ==
    LoopCond(run) /\ ~LimitReached(m, n) /\ ~(d > 0 /\ e)

\* send_message, lines 57-58: "if not self.running: return"
HttpTaskRuns(run) == run

\* mutant: the semaphore lets every task in
PermitIgnored(n) == TRUE

\* send_message, line 62: "async with self.semaphore" is entered
Permit(n) == n > 0

\* mutant: run() does not wait for its tasks
TasksDoneIgnored(t) == TRUE

\* run, lines 127-128: "await asyncio.wait(tasks)" returns
TasksDone(t) == \A i \in 1..Len(t) : t[i] = "done"

\* the event loop runs a send_message task only while run() is suspended
HttpLoopIdle == mainPc \in {"pace", "wait_tasks"}

TaskIds == 1..Len(tasks)

\* run, lines 76-93: install handle_interrupt, create the semaphore, derive
\* the count
HttpRunStart ==
    /\ kind = "http_sender" /\ mainPc = "start"
    /\ message_count' = HttpEffectiveCount(message_count, rate, duration)
    /\ semaphore' = concurrency
    /\ mainPc' = "loop"
    /\ UNCHANGED <<kind, duration, rate, concurrency, engVars, envVars, wrkVars,
                   seq, tasks, taskTs, rcvVars, sigPc, reports, histVars,
                   auxVars>>

\* lines 95-102: the loop's three tests
HttpLoopTest ==
    /\ kind = "http_sender" /\ mainPc = "loop"
    /\ HttpLoopCond(running, message_count, seq, duration, elapsed) => seq < MaxSent
    /\ mainPc' = IF HttpLoopCond(running, message_count, seq, duration, elapsed)
                 THEN "schedule" ELSE "wait_tasks"
    /\ UNCHANGED <<cfgVars, engVars, envVars, wrkVars, httpVars, rcvVars, sigPc,
                   reports, histVars, auxVars>>

\* lines 105-115: create the send task, seq += 1; with a rate the loop may
\* sleep (sleep_time > 0) or go on at once
HttpSchedule ==
    /\ kind = "http_sender" /\ mainPc = "schedule"
    /\ tasks' = Append(tasks, "new")
    /\ taskTs' = Append(taskTs, 0)
    /\ seq' = seq + 1
    /\ late' = IF running THEN late ELSE late \cup {Len(tasks) + 1}
    /\ \/ mainPc' = "loop"
       \/ rate > 0 /\ mainPc' = "pace"
    /\ UNCHANGED <<cfgVars, engVars, envVars, wrkVars, semaphore, rcvVars, sigPc,
                   reports, failedCounted, attempts, afterStop, paced, stopCalls,
                   sigRunning, auxVars>>

\* line 115: asyncio.sleep returns
HttpPace ==
    /\ kind = "http_sender" /\ mainPc = "pace"
    /\ mainPc' = "loop"
    /\ UNCHANGED <<cfgVars, engVars, envVars, wrkVars, httpVars, rcvVars, sigPc,
                   reports, histVars, auxVars>>

\* send_message, lines 57-63: a task starts; it returns if the sender has
\* stopped, posts if the semaphore has a permit, and waits for one otherwise
HttpTaskStart(i) ==
    /\ kind = "http_sender" /\ HttpLoopIdle
    /\ i \in TaskIds /\ tasks[i] = "new"
    /\ IF ~HttpTaskRuns(running)
       THEN /\ tasks' = [tasks EXCEPT ![i] = "done"]
            /\ UNCHANGED <<taskTs, semaphore, clock>>
       ELSE IF Permit(semaphore)
       THEN /\ tasks' = [tasks EXCEPT ![i] = "posting"]
            /\ semaphore' = semaphore - 1
            /\ taskTs' = [taskTs EXCEPT ![i] = clock]
            /\ clock' = Tick(clock)
       ELSE /\ tasks' = [tasks EXCEPT ![i] = "wait_sem"]
            /\ UNCHANGED <<taskTs, semaphore, clock>>
    /\ UNCHANGED <<cfgVars, engVars, elapsed, wrkVars, seq, rcvVars, mainPc, sigPc,
                   reports, histVars, auxVars>>

\* lines 62-65: a waiting task gets a permit, reads the clock and posts
HttpTaskAcquire(i) ==
    /\ kind = "http_sender" /\ HttpLoopIdle
    /\ i \in TaskIds /\ tasks[i] = "wait_sem"
    /\ Permit(semaphore)
    /\ tasks' = [tasks EXCEPT ![i] = "posting"]
    /\ semaphore' = semaphore - 1
    /\ taskTs' = [taskTs EXCEPT ![i] = clock]
    /\ clock' = Tick(clock)
    /\ UNCHANGED <<cfgVars, engVars, elapsed, wrkVars, seq, rcvVars, mainPc, sigPc,
                   reports, histVars, auxVars>>

\* lines 65-72: the POST ends: status 200 counts and appends start_time, any
\* other status or an exception does neither; the permit is returned
HttpTaskResponse(i) ==
    /\ kind = "http_sender" /\ HttpLoopIdle
    /\ i \in TaskIds /\ tasks[i] = "posting"
    /\ \E ok \in BOOLEAN :
         IF ok THEN /\ sent_messages' = sent_messages + 1
                    /\ timestamps' = Record(timestamps, taskTs[i])
               ELSE UNCHANGED <<sent_messages, timestamps>>
    /\ tasks' = [tasks EXCEPT ![i] = "done"]
    /\ semaphore' = semaphore + 1
    /\ UNCHANGED <<cfgVars, running, received_messages, envVars, wrkVars, seq,
                   taskTs, rcvVars, mainPc, sigPc, reports, histVars,
                   auxVars>>

\* lines 127-130: every task has ended, the session is closed, generate_report
HttpFinish ==
    /\ kind = "http_sender" /\ mainPc = "wait_tasks"
    /\ TasksDone(tasks)
    /\ reports' = Append(reports, Report(sent_messages, timestamps))
    /\ mainPc' = "done"
    /\ UNCHANGED <<cfgVars, engVars, envVars, wrkVars, httpVars, rcvVars, sigPc,
                   histVars, auxVars>>

\* SIGINT: handle_interrupt, lines 132-135, between any two steps of the loop
HttpSigint ==
    /\ kind = "http_sender" /\ sigPc = "none" /\ mainPc \notin {"start", "done"}
    /\ sigRunning' = running
    /\ running' = FALSE
    /\ sigPc' = "returned"
    /\ UNCHANGED <<cfgVars, sent_messages, received_messages, timestamps, envVars,
                   wrkVars, httpVars, rcvVars, mainPc, reports, failedCounted, attempts, afterStop, paced, late, stopCalls,
                   auxVars>>

\* SIGTERM: run, line 76, installs a handler for SIGINT only; the default
\* action ends the process
HttpSigterm ==
    /\ kind = "http_sender" /\ sigPc = "none" /\ mainPc \notin {"start", "done"}
    /\ sigRunning' = running
    /\ sigPc' = "killed"
    /\ mainPc' = "killed"
    /\ UNCHANGED <<cfgVars, engVars, envVars, wrkVars, httpVars, rcvVars, reports,
                   failedCounted, attempts, afterStop, paced, late, stopCalls,
                   auxVars>>

HttpSenderNext ==
    \/ HttpRunStart
    \/ HttpLoopTest
    \/ HttpSchedule
    \/ HttpPace
    \/ \E i \in 1..MaxSent : HttpTaskStart(i)
    \/ \E i \in 1..MaxSent : HttpTaskAcquire(i)
    \/ \E i \in 1..MaxSent : HttpTaskResponse(i)
    \/ HttpFinish
    \/ HttpSigint
    \/ HttpSigterm

(* --------------------------- MQTT receiver --------------------------- *)
\* MqttReceiver.run, lines 96-103: connect, loop_start, start the monitor
MqttRecvStart ==
    /\ kind = "mqtt_receiver" /\ mainPc = "start"
    /\ serving' = TRUE
    /\ monPc' = IF duration > 0 THEN "sleep" ELSE "none"
    /\ mainPc' = "poll"
    /\ UNCHANGED <<cfgVars, engVars, envVars, wrkVars, httpVars, shutdown_event,
                   handlerPc, triggers, sigPc, reports, histVars, auxVars>>

\* on_message, lines 30-33, on the network thread: the running test and
\* the clock
MqttOnMessage ==
    /\ kind = "mqtt_receiver" /\ serving /\ handlerPc = "idle"
    /\ received_messages < MaxReceived
    /\ IF running
       THEN /\ timestamp' = [timestamp EXCEPT ![1] = clock]
            /\ clock' = Tick(clock)
            /\ handlerPc' = "count"
       ELSE UNCHANGED <<timestamp, clock, handlerPc>>
    /\ UNCHANGED <<cfgVars, engVars, elapsed, lock, pc, reg, local_seq, httpVars,
                   shutdown_event, monPc, triggers, serving, mainPc, sigPc,
                   reports, histVars, auxVars>>

\* line 34: self.received_messages += 1
MqttOnMessageCount ==
    /\ kind = "mqtt_receiver" /\ handlerPc = "count"
    /\ received_messages' = received_messages + 1
    /\ handlerPc' = "append"
    /\ UNCHANGED <<cfgVars, running, sent_messages, timestamps, envVars, wrkVars,
                   httpVars, shutdown_event, monPc, triggers, serving, mainPc,
                   sigPc, reports, histVars, auxVars>>

\* lines 35-43: append, and trigger_shutdown when the limit is met
MqttOnMessageAppend ==
    /\ kind = "mqtt_receiver" /\ handlerPc = "append"
    /\ timestamps' = Record(timestamps, timestamp[1])
    /\ shutdown_event' = IF LimitReached(message_count, received_messages)
                         THEN TriggerShutdown(shutdown_event) ELSE shutdown_event
    /\ handlerPc' = "idle"
    /\ UNCHANGED <<cfgVars, running, sent_messages, received_messages, envVars,
                   wrkVars, httpVars, monPc, triggers, serving, mainPc, sigPc,
                   reports, histVars, auxVars>>

\* monitor_duration, lines 90-93, on its own thread
MqttRecvMonitor ==
    /\ kind = "mqtt_receiver" /\ monPc = "sleep"
    /\ elapsed
    /\ shutdown_event' = IF running THEN TriggerShutdown(shutdown_event) ELSE shutdown_event
    /\ monPc' = "done"
    /\ UNCHANGED <<cfgVars, engVars, envVars, wrkVars, httpVars, handlerPc,
                   triggers, serving, mainPc, sigPc, reports, histVars,
                   auxVars>>

\* SIGINT/SIGTERM: signal_handler, lines 112-114: trigger_shutdown
MqttRecvSignal ==
    /\ kind = "mqtt_receiver" /\ sigPc = "none" /\ mainPc \notin {"start", "done"}
    /\ sigRunning' = running
    /\ shutdown_event' = TriggerShutdown(shutdown_event)
    /\ sigPc' = "returned"
    /\ UNCHANGED <<cfgVars, engVars, envVars, wrkVars, httpVars, handlerPc, monPc,
                   triggers, serving, mainPc, reports, failedCounted, attempts, afterStop, paced, late, stopCalls,
                   auxVars>>

\* run, lines 106-110: the wait loop ends, stop() begins: lines 51-55
MqttRecvStop ==
    /\ kind = "mqtt_receiver" /\ mainPc = "poll"
    /\ ~running \/ shutdown_event
    /\ running' = FALSE
    /\ mainPc' = IF ShouldStop(running) THEN "teardown" ELSE "done"
    /\ UNCHANGED <<cfgVars, sent_messages, received_messages, timestamps, envVars,
                   wrkVars, httpVars, rcvVars, sigPc, reports, histVars,
                   auxVars>>

\* stop, lines 56-57: loop_stop joins the network thread, disconnect
MqttRecvTeardown ==
    /\ kind = "mqtt_receiver" /\ mainPc = "teardown"
    /\ NetworkThreadJoined(handlerPc)
    /\ serving' = FALSE
    /\ mainPc' = "report"
    /\ UNCHANGED <<cfgVars, engVars, envVars, wrkVars, httpVars, shutdown_event,
                   handlerPc, monPc, triggers, sigPc, reports, histVars,
                   auxVars>>

\* stop, line 58: generate_report
MqttRecvReport ==
    /\ kind = "mqtt_receiver" /\ mainPc = "report"
    /\ reports' = Append(reports, Report(received_messages, timestamps))
    /\ mainPc' = "done"
    /\ UNCHANGED <<cfgVars, engVars, envVars, wrkVars, httpVars, rcvVars, sigPc,
                   histVars, auxVars>>

\* a further call of stop() once run() has returned, lines 49-58
MqttRecvStopAgain ==
    /\ kind = "mqtt_receiver" /\ mainPc = "done" /\ stopCalls < MaxStopCalls
    /\ stopCalls' = stopCalls + 1
    /\ running' = FALSE
    /\ reports' = StopReports(running, reports, received_messages, timestamps)
    /\ UNCHANGED <<cfgVars, sent_messages, received_messages, timestamps, envVars,
                   wrkVars, httpVars, rcvVars, mainPc, sigPc, failedCounted,
                   attempts, afterStop, paced, late, sigRunning, auxVars>>

MqttReceiverNext ==
    \/ MqttRecvStart
    \/ MqttOnMessage
    \/ MqttOnMessageCount
    \/ MqttOnMessageAppend
    \/ MqttRecvMonitor
    \/ MqttRecvSignal
    \/ MqttRecvStop
    \/ MqttRecvTeardown
    \/ MqttRecvReport
    \/ MqttRecvStopAgain

(* --------------------- CoAP and HTTP receivers ----------------------- *)
AsyncReceivers == {"coap_receiver", "http_receiver"}

\* render_post, lines 25-26, tests self.running; handle_message has no test
Accepts(k, run) == IF k = "coap_receiver" THEN run ELSE TRUE

\* run_server: create the context / start the site, register the signal
\* handlers, start the monitor
AsyncRecvStart ==
    /\ kind \in AsyncReceivers /\ mainPc = "start"
    /\ serving' = TRUE
    /\ monPc' = IF duration > 0 THEN "sleep" ELSE "none"
    /\ mainPc' = "wait"
    /\ UNCHANGED <<cfgVars, engVars, envVars, wrkVars, httpVars, shutdown_event,
                   handlerPc, triggers, sigPc, reports, histVars, auxVars>>

\* render_post, lines 24-40 / handle_message, lines 24-39: one message; the
\* handler has no suspension point; at the limit it creates a
\* trigger_shutdown task.  handle_message reads the clock and then enters
\* "async with self.lock": the lock is never held across a suspension point,
\* so it is free, and entering a free asyncio.Lock does not suspend
AsyncRecvMessage ==
    /\ kind \in AsyncReceivers /\ serving
    /\ received_messages < MaxReceived
    /\ kind = "http_receiver" => LockFree(lock)
    /\ IF Accepts(kind, running)
       THEN /\ received_messages' = received_messages + 1
            /\ timestamps' = Record(timestamps, clock)
            /\ clock' = Tick(clock)
            /\ triggers' = IF LimitReached(message_count, received_messages')
                           THEN triggers + 1 ELSE triggers
       ELSE UNCHANGED <<received_messages, timestamps, clock, triggers>>
    /\ UNCHANGED <<cfgVars, running, sent_messages, elapsed, wrkVars, httpVars,
                   shutdown_event, handlerPc, monPc, serving, mainPc, sigPc,
                   reports, histVars, auxVars>>

\* trigger_shutdown, run as a task of its own
AsyncRecvTrigger ==
    /\ kind \in AsyncReceivers /\ triggers > 0
    /\ mainPc # "done"
    /\ triggers' = triggers - 1
    /\ shutdown_event' = TriggerShutdown(shutdown_event)
    /\ UNCHANGED <<cfgVars, engVars, envVars, wrkVars, httpVars, handlerPc, monPc,
                   serving, mainPc, sigPc, reports, histVars, auxVars>>

\* monitor_duration: the sleep returns; trigger_shutdown if still running
AsyncRecvMonitor ==
    /\ kind \in AsyncReceivers /\ monPc = "sleep"
    /\ elapsed /\ mainPc # "done"
    /\ shutdown_event' = IF running THEN TriggerShutdown(shutdown_event) ELSE shutdown_event
    /\ monPc' = "done"
    /\ UNCHANGED <<cfgVars, engVars, envVars, wrkVars, httpVars, handlerPc,
                   triggers, serving, mainPc, sigPc, reports, histVars,
                   auxVars>>

\* register_signals: the loop runs signal_handler, which creates a
\* trigger_shutdown task
AsyncRecvSignal ==
    /\ kind \in AsyncReceivers /\ sigPc = "none" /\ mainPc \notin {"start", "done"}
    /\ sigRunning' = running
    /\ triggers' = triggers + 1
    /\ sigPc' = "returned"
    /\ UNCHANGED <<cfgVars, engVars, envVars, wrkVars, httpVars, shutdown_event,
                   handlerPc, monPc, serving, mainPc, reports, failedCounted, attempts, afterStop, paced, late, stopCalls,
                   auxVars>>

\* run_server: shutdown_event.wait() returns; shutdown_server up to its
\* first await: the flag and generate_report
AsyncRecvShutdown ==
    /\ kind \in AsyncReceivers /\ mainPc = "wait"
    /\ shutdown_event
    /\ running' = FALSE
    /\ reports' = StopReports(running, reports, received_messages, timestamps)
    /\ mainPc' = IF ShouldStop(running) THEN "closing" ELSE "done"
    /\ UNCHANGED <<cfgVars, sent_messages, received_messages, timestamps, envVars,
                   wrkVars, httpVars, rcvVars, sigPc, histVars, auxVars>>

\* shutdown_server: context.shutdown() / site.stop() and runner.cleanup()
\* have completed; loop.stop()
AsyncRecvClosed ==
    /\ kind \in AsyncReceivers /\ mainPc = "closing"
    /\ serving' = FALSE
    /\ mainPc' = "done"
    /\ UNCHANGED <<cfgVars, engVars, envVars, wrkVars, httpVars, shutdown_event,
                   handlerPc, monPc, triggers, sigPc, reports, histVars,
                   auxVars>>

\* a further call of shutdown_server() once run_server() has returned
AsyncRecvStopAgain ==
    /\ kind \in AsyncReceivers /\ mainPc = "done" /\ stopCalls < MaxStopCalls
    /\ stopCalls' = stopCalls + 1
    /\ running' = FALSE
    /\ reports' = StopReports(running, reports, received_messages, timestamps)
    /\ UNCHANGED <<cfgVars, sent_messages, received_messages, timestamps, envVars,
                   wrkVars, httpVars, rcvVars, mainPc, sigPc, failedCounted,
                   attempts, afterStop, paced, late, sigRunning, auxVars>>

AsyncReceiverNext ==
    \/ AsyncRecvStart
    \/ AsyncRecvMessage
    \/ AsyncRecvTrigger
    \/ AsyncRecvMonitor
    \/ AsyncRecvSignal
    \/ AsyncRecvShutdown
    \/ AsyncRecvClosed
    \/ AsyncRecvStopAgain

Next ==
    \/ Elapse
    \/ MqttSenderNext
    \/ CoapSenderNext
    \/ HttpSenderNext
    \/ MqttReceiverNext
    \/ AsyncReceiverNext

Spec == Init /\ [][Next]_vars

(* ------------------------------ claims ------------------------------- *)
Counter == IF kind \in Senders THEN sent_messages ELSE received_messages

\* no worker and no handler is between loading the counter and appending
Quiescent ==
    /\ \A w \in Workers : pc[w] \notin {"read", "write", "append"}
    /\ handlerPc = "idle"

NoDuplicates(s) == \A i, j \in 1..Len(s) : i # j => s[i] # s[j]

\* C1: whenever no worker or handler is inside its update section, the
\* series has exactly one entry per counted message and no entry twice, for
\* every interleaving of the workers and handlers.
C1_CountAndAppendAtomic ==
    Quiescent => Len(timestamps) = Counter /\ NoDuplicates(timestamps)

\* C1 witness: two MQTT worker threads have each recorded a message.
C1_Witness ==
    /\ kind = "mqtt_sender" /\ Quiescent
    /\ attempts[1] = 1 /\ attempts[2] = 1
    /\ sent_messages = 2

\* the run is over: run() has returned or the process has ended
Exited == mainPc \in {"done", "killed"}

\* C2: a sender with message_count = M > 0 and rate = 0 ends with
\* sent_messages = M and M timestamps, whatever the transport does (stated
\* for the runs its count limit ends: no duration, no signal).
C2_FinalCountIsM ==
    (/\ kind \in Senders /\ Exited
     /\ message_count > 0 /\ rate = 0 /\ duration = 0 /\ sigPc = "none")
    => sent_messages = message_count /\ Len(timestamps) = message_count

\* C3: a sender runs its shutdown sequence, and so generate_report, at most
\* once, for every interleaving of its shutdown triggers.
C3_SenderShutdownOnce == kind \in Senders => Len(reports) <= 1

\* C4: a call of stop()/shutdown_server() that follows another call (a
\* further call after the run, or a CoAP worker at the limit of a stopped
\* sender) changes neither running, the counter, the series nor the report
\* file, and exactly one report has been written however many calls follow.
C4_StopIdempotent ==
    [][(\/ stopCalls' # stopCalls
        \/ /\ kind = "coap_sender" /\ ~running
           /\ \E w \in Workers : pc[w] = "acquire" /\ pc'[w] = "done")
       => /\ UNCHANGED <<running, sent_messages, received_messages, timestamps, reports>>
          /\ Len(reports) = 1]_vars

\* C4 witness: shutdown_server() of the HTTP receiver has been called twice
\* more after the server's own shutdown.
C4_Witness ==
    kind = "http_receiver" /\ stopCalls = 2 /\ Len(reports) = 1 /\ ~running

\* C5: a receiver never writes a second report, has written exactly one
\* when run()/run_server() has returned, and has stopped when it wrote it,
\* whichever shutdown triggers fired and however often.
C5_ReceiverShutdownOnce ==
    kind \in Receivers =>
        /\ Len(reports) <= 1
        /\ mainPc = "done" => Len(reports) = 1
        /\ Len(reports) = 1 => ~running

\* C5 witness: the count threshold was met by more than one message, the
\* duration monitor has fired and a signal has arrived; the receiver has shut
\* down.
C5_Witness ==
    /\ kind \in Receivers /\ mainPc = "done"
    /\ message_count > 0 /\ received_messages > message_count
    /\ monPc = "done" /\ sigPc = "returned"
    /\ Len(reports) = 1

\* C6: a sender that a signal reached while it was running has written
\* exactly one report when its process has ended.
C6_SignalOneReport ==
    (kind \in Senders /\ sigRunning /\ Exited) => Len(reports) = 1

\* C7: once running is False every MQTT/CoAP worker makes at most one more
\* send attempt, and the HTTP loop schedules no further send task.
C7_CancelWithinOneIteration ==
    /\ \A w \in Workers : afterStop[w] <= 1
    /\ late = {}

\* C7 amended: once running is False every MQTT/CoAP worker makes at most
\* one more send attempt, and the HTTP loop schedules at most one further
\* send task, which returns without posting.
C7_CancelWithinOneIterationAmended ==
    /\ \A w \in Workers : afterStop[w] <= 1
    /\ Cardinality(late) <= 1
    /\ \A i \in late : tasks[i] \in {"new", "done"} /\ taskTs[i] = 0

\* C7 witness: the HTTP loop has scheduled a task after SIGINT and the task
\* has returned.
C7_Witness ==
    /\ kind = "http_sender" /\ ~running
    /\ \E i \in late : tasks[i] = "done"

\* C8: no failed send stands in the counter or in the series.
C8_FailedSendNotCounted == kind \in Senders => ~failedCounted

\* C9: with rate > 0 a worker comes back to its loop test only after it has
\* advanced local_seq for its last attempt and slept to the pacing deadline,
\* also when that attempt failed.
C9_FailedSendPaced ==
    (kind \in {"mqtt_sender", "coap_sender"} /\ rate > 0) =>
        \A w \in Workers :
            pc[w] \in {"loop", "acquire"} =>
                paced[w] /\ local_seq[w] = attempts[w]

\* C10: with rate > 0 and duration > 0, when the duration has passed and
\* the count is not reached, the main thread/task is on its way to stop the
\* running sender.
C10_DurationWatchdog ==
    (/\ kind \in {"mqtt_sender", "coap_sender"}
     /\ rate > 0 /\ duration > 0 /\ mainPc # "start" /\ sigPc = "none"
     /\ elapsed /\ running /\ ~LimitReached(message_count, sent_messages))
    => mainPc \in {"sleep", "stop_check", "stop_set"}

\* C11: once run() has derived the count, a sender with rate R > 0 and
\* duration D > 0 uses message_count = floor(R * D * C), C the concurrency.
C11_DerivedCount ==
    (kind \in Senders /\ mainPc # "start" /\ rate > 0 /\ duration > 0)
    => message_count = DerivedCount(rate, duration, concurrency)

\* C12: a receiver whose started transport has been released (network loop
\* stopped and client disconnected, site/runner/context closed) has written
\* its report before.
C12_ReportBeforeTeardown ==
    (kind \in Receivers /\ mainPc # "start" /\ ~serving) => Len(reports) >= 1

\* C13: a message delivered to a receiver's handler while running is False
\* is rejected: the handler ends at once and leaves received_messages and
\* timestamps unchanged, in the MQTT, CoAP and HTTP receivers.
C13_RejectAfterStop ==
    [][(kind \in Receivers /\ ~running /\ handlerPc = "idle")
       => /\ handlerPc' = "idle"
          /\ UNCHANGED <<received_messages, timestamps>>]_vars

\* a step of a receiver's message handler
HandlerStep ==
    \/ handlerPc' # handlerPc
    \/ received_messages' # received_messages
    \/ timestamps' # timestamps

\* a step of the shutdown sequence that writes the report or releases the
\* transport
ShutdownStep == reports' # reports \/ (serving /\ ~serving')

\* a handler step leaves the shutdown sequence alone and, at the count
\* limit, signals
HandlerSignals ==
    /\ UNCHANGED <<running, reports, serving, mainPc, auxVars>>
    /\ (/\ kind = "mqtt_receiver"
        /\ handlerPc = "append" /\ handlerPc' = "idle"
        /\ LimitReached(message_count, received_messages))
       => shutdown_event'
    /\ (/\ kind \in AsyncReceivers
        /\ received_messages' # received_messages
        /\ LimitReached(message_count, received_messages'))
       => triggers' = triggers + 1

\* a shutdown step is a step of the main task/thread with no handler under way
ShutdownByMain ==
    /\ handlerPc = "idle"
    /\ ~HandlerStep
    /\ mainPc' # mainPc

\* C14: a receiver's handler never runs the shutdown sequence: a handler
\* step leaves running, the report, the transport and the main task/thread
\* alone, and at the count limit it sets the shutdown event (MQTT) or creates
\* the trigger_shutdown task (CoAP, HTTP); the report is written and the
\* transport released in steps of the main task/thread, with no handler
\* under way.
C14_HandlerOnlySignals ==
    [][(kind \in Receivers) =>
         ((HandlerStep => HandlerSignals) /\ (ShutdownStep => ShutdownByMain))]_vars

\* C14 witness: a receiver was shut down by its handler alone (the count
\* limit; no signal, no duration) and run()/run_server() has returned.
C14_Witness ==
    /\ kind \in Receivers /\ mainPc = "done"
    /\ LimitReached(message_count, received_messages)
    /\ sigPc = "none" /\ duration = 0 /\ stopCalls = 0
    /\ Len(reports) = 1 /\ ~serving

(* ------------------- receivers under fair scheduling ------------------ *)
\* a run of one of the receiver engines
ReceiverInit == Init /\ kind \in Receivers

ReceiverNext ==
    \/ Elapse
    \/ MqttReceiverNext
    \/ AsyncReceiverNext

\* the threads of the MQTT receiver (main, network, monitor) are scheduled
\* by the operating system and the tasks of the asyncio receivers by the
\* event loop: a step that stays possible is taken.  Nothing obliges the
\* environment to deliver a message or a signal, or the duration to pass.
ReceiverFairness ==
    /\ WF_vars(MqttOnMessageCount)
    /\ WF_vars(MqttOnMessageAppend)
    /\ WF_vars(MqttRecvMonitor)
    /\ WF_vars(MqttRecvStop)
    /\ WF_vars(MqttRecvTeardown)
    /\ WF_vars(MqttRecvReport)
    /\ WF_vars(AsyncRecvTrigger)
    /\ WF_vars(AsyncRecvMonitor)
    /\ WF_vars(AsyncRecvShutdown)
    /\ WF_vars(AsyncRecvClosed)

ReceiverSpec == ReceiverInit /\ [][ReceiverNext]_vars /\ ReceiverFairness

\* a shutdown condition of the receiver is met: the count limit by the
\* messages delivered, or the duration
ShutdownDue ==
    \/ LimitReached(message_count, received_messages)
    \/ duration > 0 /\ elapsed

\* C15: under fair scheduling a receiver whose count limit is met by the
\* delivered messages, or whose duration has passed, eventually has running
\* False and its report written.
C15_ReceiverLiveness ==
    (kind \in Receivers /\ ShutdownDue) ~> (~running /\ Len(reports) = 1)

\* C15 witness: the duration of a receiver without count limit has passed
\* and the receiver has stopped and written its report.
C15_Witness ==
    /\ kind \in Receivers /\ message_count = 0 /\ duration > 0 /\ elapsed
    /\ sigPc = "none" /\ monPc = "done"
    /\ ~running /\ Len(reports) = 1

\* C16: in every engine running starts True, and once it is False no step
\* sets it back to True.
C16_RunningNeverResumes == (running = TRUE) /\ [][~running => ~running']_vars

\* C16 witness: the MQTT sender was stopped by a worker at the count limit
\* and by the signal handler as well: both assigned running.
C16_Witness ==
    /\ kind = "mqtt_sender" /\ ~running
    /\ sigPc = "exited" /\ \E w \in Workers : pc[w] = "dead"

\* C17: in every report a sender has written, total_sent is the number of
\* entries of the report's timestamps, whatever the interleaving of the
\* workers with the trigger of the report.
C17_ReportTotalIsLength ==
    kind \in Senders =>
        \A i \in 1..Len(reports) : reports[i].total = Len(reports[i].timestamps)

\* C18: the timestamp series is append-only: every step leaves it unchanged
\* or adds exactly one entry at its end, the entries before it kept as they
\* were and where they were.
C18_AppendOnly ==
    [][\/ timestamps' = timestamps
       \/ /\ Len(timestamps') = Len(timestamps) + 1
          /\ SubSeq(timestamps', 1, Len(timestamps)) = timestamps]_vars

\* C18 witness: two tasks of the HTTP sender have recorded their start times
\* out of (time) order, the later start first.
C18_Witness ==
    /\ kind = "http_sender" /\ Len(timestamps) = 2
    /\ timestamps[1] > timestamps[2]

NonDecreasing(s) == \A i \in 1..(Len(s) - 1) : s[i] <= s[i + 1]

\* C19: with a clock that does not go back, the timestamp series of a
\* receiver (MQTT, CoAP, HTTP) is non-decreasing in every reachable state.
C19_ReceiverSeriesOrdered == kind \in Receivers => NonDecreasing(timestamps)

\* C19 witness: the HTTP receiver, which reads the clock before it enters
\* its lock, has recorded three messages.
C19_Witness == kind = "http_receiver" /\ Len(timestamps) = 3

(* ------------------------ generate_report alone ----------------------- *)
\* every series of at most MaxSeries timestamps in 0..MaxStamp
Series == UNION {[1..n -> 0..MaxStamp] : n \in 0..MaxSeries}

\* an engine with any counter and any series, about to call generate_report
ReportInit ==
    /\ kind \in Senders \cup Receivers
    /\ message_count = 0
    /\ duration = 0
    /\ rate = 0
    /\ concurrency = 1
    /\ running = FALSE
    /\ \E n \in 0..MaxTotal :
         /\ sent_messages = IF kind \in Senders THEN n ELSE 0
         /\ received_messages = IF kind \in Receivers THEN n ELSE 0
    /\ timestamps \in Series
    /\ clock = 1
    /\ elapsed = FALSE
    /\ lock = 0
    /\ pc = [w \in Workers |-> "idle"]
    /\ timestamp = [w \in Workers |-> 0]
    /\ reg = [w \in Workers |-> 0]
    /\ local_seq = [w \in Workers |-> 0]
    /\ mainPc = "report"
    /\ sigPc = "none"
    /\ reports = <<>>
    /\ seq = 0
    /\ tasks = <<>>
    /\ taskTs = <<>>
    /\ semaphore = 0
    /\ shutdown_event = FALSE
    /\ handlerPc = "idle"
    /\ monPc = "none"
    /\ triggers = 0
    /\ serving = FALSE
    /\ failedCounted = FALSE
    /\ attempts = [w \in Workers |-> 0]
    /\ afterStop = [w \in Workers |-> 0]
    /\ paced = [w \in Workers |-> TRUE]
    /\ late = {}
    /\ stopCalls = 0
    /\ sigRunning = FALSE
    /\ AuxIdle

\* generate_report: the report is computed and written
GenerateReport ==
    /\ mainPc = "report"
    /\ reports' = Append(reports, Report(Counter, timestamps))
    /\ mainPc' = "done"
    /\ UNCHANGED <<cfgVars, engVars, envVars, wrkVars, httpVars, rcvVars, sigPc,
                   histVars, auxVars>>

ReportSpec == ReportInit /\ [][GenerateReport]_vars

\* the report r has the fields the claim gives for counter n and series s
ReportFieldsOK(r, n, s) ==
    /\ r.start_time = IF Len(s) = 0 THEN 0 ELSE s[1]
    /\ r.end_time = IF Len(s) = 0 THEN 0 ELSE s[Len(s)]
    /\ r.avg_rate_per_sec.per > 0
    /\ r.avg_rate_per_sec.msgs >= 0
    /\ IF Len(s) >= 2 /\ s[Len(s)] - s[1] > 0
       THEN r.avg_rate_per_sec = [msgs |-> n, per |-> s[Len(s)] - s[1]]
       ELSE r.avg_rate_per_sec.msgs = 0

\* C20: for every counter value and series, the report has start_time =
\* first timestamp (0 if none), end_time = last timestamp (0 if none) and
\* avg_rate_per_sec = total / (last - first), which is 0 when the series has
\* fewer than two entries or last - first is not positive; the divisor is
\* never zero and the rate never negative.
C20_ReportFields ==
    \A i \in 1..Len(reports) :
        ReportFieldsOK(reports[i], reports[i].total, reports[i].timestamps)

\* C20 witness: the report of a three-entry series whose last entry is later
\* than its first has been written for the counter 2, with the rate
\* 2 / (last - first).
C20_Witness ==
    /\ Len(reports) = 1
    /\ Len(reports[1].timestamps) = 3
    /\ reports[1].end_time > reports[1].start_time
    /\ reports[1].total = 2
    /\ reports[1].avg_rate_per_sec.msgs = 2

(* ----------------------------- aggregator ----------------------------- *)
\* the state of an engine before its run, the settings and the clock apart:
\* the constructor's values
Constructed ==
    /\ running = TRUE
    /\ sent_messages = 0
    /\ received_messages = 0
    /\ timestamps = <<>>
    /\ elapsed = FALSE
    /\ lock = 0
    /\ pc = [w \in Workers |-> "idle"]
    /\ timestamp = [w \in Workers |-> 0]
    /\ reg = [w \in Workers |-> 0]
    /\ local_seq = [w \in Workers |-> 0]
    /\ sigPc = "none"
    /\ reports = <<>>
    /\ seq = 0
    /\ tasks = <<>>
    /\ taskTs = <<>>
    /\ semaphore = 0
    /\ shutdown_event = FALSE
    /\ handlerPc = "idle"
    /\ monPc = "none"
    /\ triggers = 0
    /\ serving = FALSE
    /\ failedCounted = FALSE
    /\ attempts = [w \in Workers |-> 0]
    /\ afterStop = [w \in Workers |-> 0]
    /\ paced = [w \in Workers |-> TRUE]
    /\ late = {}
    /\ stopCalls = 0
    /\ sigRunning = FALSE

\* the state of the engines when no engine runs
EngineIdle ==
    /\ message_count = 0
    /\ duration = 0
    /\ rate = 0
    /\ concurrency = 1
    /\ clock = 1
    /\ Constructed

\* the fields of a report file
Fields == {"total", "timestamps", "start_time", "end_time", "avg_rate_per_sec"}

\* every timestamps array of a report file
AggSeries == UNION {[1..n -> 0..MaxStamp] : n \in 0..MaxAggSeries}

\* a report file: missing, not valid JSON, or a JSON object that has every
\* field or lacks one
ReportFiles ==
    [state : {"ok"}, lacks : {None}, total : 0..MaxAggTotal, timestamps : AggSeries]
    \cup [state : {"missing", "invalid"}, lacks : {None}, total : {0}, timestamps : {<<>>}]
    \cup [state : {"ok"}, lacks : Fields, total : 0..MaxAggTotal, timestamps : {<<>>}]

\* the exact quotient n / d; d = 0 stands for the error the division or the
\* statistics function raises
Quot(n, d) == [num |-> n, per |-> d]

Min2(a, b) == IF a < b THEN a ELSE b

\* mutant: the division is made for total_sent = 0 as well
SentAnyIgnored(total_sent) == TRUE

\* line 26: "if total_sent > 0"
SentAny(total_sent) == total_sent > 0

\* calculate_metrics, lines 26-29
PacketLoss(total_sent, total_received) ==
    IF SentAny(total_sent)
    THEN Quot((total_sent - total_received) * 100, total_sent)
    ELSE Quot(0, 1)

\* mutant: the division is made whatever the duration
SpanPositiveIgnored(d) == TRUE

\* line 40: "if duration_s > 0"
SpanPositive(d) == d > 0

\* calculate_metrics, lines 32-43; the quotient is kept exact, in messages
\* per clock unit
TransferSpeed(total_sent, s) ==
    IF Len(s) > 0 /\ Len(s) >= 2
    THEN IF SpanPositive(s[Len(s)] - s[1])
         THEN Quot(total_sent, s[Len(s)] - s[1])
         ELSE Quot(0, 1)
    ELSE Quot(0, 1)

\* mutant: the sender's series is not compared with total_received
SenderCoversIgnored(s, total_received) == TRUE

\* line 47: "len(self.sender_data["timestamps"]) >= total_received"
SenderCovers(s, total_received) == Len(s) >= total_received

\* mutant: every received timestamp is paired with the first sent one
SentFirst(s, i) == s[1]

\* line 52: "self.sender_data["timestamps"][i]"
Sent(s, i) == s[i]

\* lines 50-53: the loop over i, from index i on (index 1 is the code's 0)
RECURSIVE LatencyLoop(_, _, _, _)
LatencyLoop(i, n, s, r) ==
    IF i > n THEN <<>>
    ELSE IF i <= Len(s)
         THEN <<r[i] - Sent(s, i)>> \o LatencyLoop(i + 1, n, s, r)
         ELSE LatencyLoop(i + 1, n, s, r)

\* lines 46-53: latencies, in clock units
Latencies(total_received, s, r) ==
    IF total_received > 0 /\ SenderCovers(s, total_received)
    THEN LatencyLoop(1, Min2(total_received, Len(r)), s, r)
    ELSE <<>>

RECURSIVE SumSeq(_)
SumSeq(l) == IF Len(l) = 0 THEN 0 ELSE Head(l) + SumSeq(Tail(l))

\* statistics.mean: raises on an empty list
Mean(l) == Quot(SumSeq(l), Len(l))

\* min(l): raises on an empty list
MinOf(l) ==
    IF Len(l) = 0 THEN Quot(0, 0)
    ELSE Quot(CHOOSE x \in {l[i] : i \in 1..Len(l)} :
                 \A j \in 1..Len(l) : x <= l[j], 1)

\* max(l): raises on an empty list
MaxOf(l) ==
    IF Len(l) = 0 THEN Quot(0, 0)
    ELSE Quot(CHOOSE x \in {l[i] : i \in 1..Len(l)} :
                 \A j \in 1..Len(l) : x >= l[j], 1)

\* sorted(l)
Sorted(l) ==
    CHOOSE t \in [1..Len(l) -> {l[i] : i \in 1..Len(l)}] :
        /\ \A i \in 1..(Len(l) - 1) : t[i] <= t[i + 1]
        /\ \A x \in {l[i] : i \in 1..Len(l)} :
             Cardinality({i \in 1..Len(l) : t[i] = x})
             = Cardinality({i \in 1..Len(l) : l[i] = x})

\* statistics.median: the middle entry of the sorted list, the mean of the
\* two middle entries when the length is even; raises on an empty list
Median(l) ==
    IF Len(l) = 0 THEN Quot(0, 0)
    ELSE IF Len(l) % 2 = 1
         THEN Quot(Sorted(l)[(Len(l) + 1) \div 2], 1)
         ELSE Quot(Sorted(l)[Len(l) \div 2] + Sorted(l)[Len(l) \div 2 + 1], 2)

\* mutant: the statistics are taken of an empty list as well
NonEmptyIgnored(l) == TRUE

\* lines 61-64: "if latencies"
NonEmpty(l) == Len(l) > 0

\* calculate_metrics, lines 20-67, for loaded reports sd and rd
CalculateMetrics(sd, rd) ==
    LET l == Latencies(rd.total, sd.timestamps, rd.timestamps) IN
    [total_sent |-> sd.total,
     total_received |-> rd.total,
     packet_loss_percent |-> PacketLoss(sd.total, rd.total),
     transfer_speed_msgs_per_sec |-> TransferSpeed(sd.total, sd.timestamps),
     latencies_ms |-> l,
     avg_latency_ms |-> IF NonEmpty(l) THEN Mean(l) ELSE Quot(0, 1),
     min_latency_ms |-> IF NonEmpty(l) THEN MinOf(l) ELSE Quot(0, 1),
     max_latency_ms |-> IF NonEmpty(l) THEN MaxOf(l) ELSE Quot(0, 1),
     median_latency_ms |-> IF NonEmpty(l) THEN Median(l) ELSE Quot(0, 1)]

\* calculate_metrics raises: a field it reads is not there (KeyError at line
\* 22, 23, 32 or 50), a division by zero, or a statistics function is given
\* an empty list
CalculateRaises(sd, rd) ==
    \/ sd.lacks \in {"total", "timestamps"}
    \/ rd.lacks = "total"
    \/ /\ rd.lacks = "timestamps"
       /\ rd.total > 0 /\ SenderCovers(sd.timestamps, rd.total)
    \/ LET m == CalculateMetrics(sd, rd) IN
         \/ m.packet_loss_percent.per = 0
         \/ m.transfer_speed_msgs_per_sec.per = 0
         \/ m.avg_latency_ms.per = 0
         \/ m.min_latency_ms.per = 0
         \/ m.max_latency_ms.per = 0
         \/ m.median_latency_ms.per = 0

\* generate_report, lines 75-95, raises: start_time or end_time is not there
FormatRaises(sd, rd) ==
    sd.lacks \in {"start_time", "end_time"} \/ rd.lacks \in {"start_time", "end_time"}

\* the aggregator is started on two report files; the output file may exist
AggInit ==
    /\ kind = "aggregator"
    /\ EngineIdle
    /\ mainPc = "load"
    /\ thread_start_time = 0
    /\ payload_size = 0
    /\ payload = 0
    /\ sender_file \in ReportFiles
    /\ receiver_file \in ReportFiles
    /\ sender_data = None
    /\ receiver_data = None
    /\ metrics = None
    /\ output_file \in {None, "old"}
    /\ seqs = <<>>

\* load_reports, lines 12-18: open and parse the sender file, then the
\* receiver file
AggLoad ==
    /\ kind = "aggregator" /\ mainPc = "load"
    /\ sender_data' = IF sender_file.state = "ok" THEN sender_file ELSE sender_data
    /\ receiver_data' = IF sender_file.state = "ok" /\ receiver_file.state = "ok"
                        THEN receiver_file ELSE receiver_data
    /\ mainPc' = IF sender_file.state = "ok" /\ receiver_file.state = "ok"
                 THEN "calculate" ELSE "failed"
    /\ UNCHANGED <<cfgVars, engVars, envVars, wrkVars, httpVars, rcvVars, sigPc,
                   reports, histVars, seqs, thread_start_time, payload_size, payload,
                   sender_file, receiver_file, metrics, output_file>>

\* generate_report, line 72: calculate_metrics
AggCalculate ==
    /\ kind = "aggregator" /\ mainPc = "calculate"
    /\ IF CalculateRaises(sender_data, receiver_data)
       THEN mainPc' = "failed" /\ metrics' = metrics
       ELSE mainPc' = "write" /\ metrics' = CalculateMetrics(sender_data, receiver_data)
    /\ UNCHANGED <<cfgVars, engVars, envVars, wrkVars, httpVars, rcvVars, sigPc,
                   reports, histVars, seqs, thread_start_time, payload_size, payload,
                   sender_file, receiver_file, sender_data, receiver_data,
                   output_file>>

\* generate_report, lines 75-99: format the report, write the output file
AggWrite ==
    /\ kind = "aggregator" /\ mainPc = "write"
    /\ IF FormatRaises(sender_data, receiver_data)
       THEN mainPc' = "failed" /\ output_file' = output_file
       ELSE mainPc' = "done" /\ output_file' = metrics
    /\ UNCHANGED <<cfgVars, engVars, envVars, wrkVars, httpVars, rcvVars, sigPc,
                   reports, histVars, seqs, thread_start_time, payload_size, payload,
                   sender_file, receiver_file, sender_data, receiver_data, metrics>>

AggNext ==
    \/ AggLoad
    \/ AggCalculate
    \/ AggWrite

AggSpec == AggInit /\ [][AggNext]_vars

(* ------------------------ claims on the aggregator --------------------- *)
\* a report file that is there, is valid JSON and has every field
WellFormed(f) == f.state = "ok" /\ f.lacks = None

\* calculate_metrics has returned
AggComputed == kind = "aggregator" /\ mainPc \in {"write", "done"}

\* C21: for every pair of loaded reports the latency list has exactly
\* min(total_received, len(receiver timestamps)) entries, the i-th being the
\* i-th received timestamp minus the i-th sent timestamp (in clock units).
C21_LatencyList ==
    (AggComputed /\ WellFormed(sender_file) /\ WellFormed(receiver_file)) =>
        LET s == sender_data.timestamps
            r == receiver_data.timestamps
            l == metrics.latencies_ms
        IN /\ Len(l) = Min2(receiver_data.total, Len(r))
           /\ \A i \in 1..Len(l) : i <= Len(s) /\ l[i] = r[i] - s[i]

\* C22: for every pair of loaded reports packet_loss_percent is
\* (total_sent - total_received) / total_sent * 100 when total_sent > 0 and
\* 0 when total_sent is 0, and no division by zero is made.
C22_PacketLoss ==
    (kind = "aggregator" /\ WellFormed(sender_file) /\ WellFormed(receiver_file)) =>
        LET ts == sender_file.total
            tr == receiver_file.total
            p == PacketLoss(ts, tr)
        IN /\ p.per > 0
           /\ IF ts > 0 THEN p.num * ts = (ts - tr) * 100 * p.per ELSE p.num = 0
           /\ AggComputed => metrics.packet_loss_percent = p

\* C22 witness: two messages sent, one received: the metrics give 100 / 2
\* percent.
C22_Witness ==
    /\ kind = "aggregator" /\ mainPc = "done"
    /\ sender_data.total = 2 /\ receiver_data.total = 1
    /\ metrics.packet_loss_percent = Quot(100, 2)

\* C23: for every sender report the throughput is total_sent divided by
\* (last - first sender timestamp), and 0 when the series has fewer than two
\* timestamps or when last - first is not positive.
C23_Throughput ==
    (kind = "aggregator" /\ WellFormed(sender_file)) =>
        LET s == sender_file.timestamps
            n == sender_file.total
            t == TransferSpeed(n, s)
        IN /\ t.per > 0
           /\ IF Len(s) >= 2 /\ s[Len(s)] - s[1] > 0
              THEN t.num * (s[Len(s)] - s[1]) = n * t.per
              ELSE t.num = 0
           /\ AggComputed => metrics.transfer_speed_msgs_per_sec = t

\* C23 witness: two messages sent two clock units apart: the metrics give
\* 2 / 2 messages per unit.
C23_Witness ==
    /\ kind = "aggregator" /\ mainPc = "done"
    /\ sender_data.total = 2 /\ sender_data.timestamps = <<0, 2>>
    /\ metrics.transfer_speed_msgs_per_sec = Quot(2, 2)

\* every difference of two timestamps
Diffs == (0 - MaxStamp)..MaxStamp

\* the reports of an exchange: S sent and stamped, R <= S received and
\* stamped
RoundTrip ==
    /\ WellFormed(sender_file) /\ WellFormed(receiver_file)
    /\ sender_file.total = Len(sender_file.timestamps)
    /\ receiver_file.total = Len(receiver_file.timestamps)
    /\ receiver_file.total <= sender_file.total

\* every one of the R pairs differs by d
ConstantLatency(d) ==
    \A i \in 1..receiver_file.total :
        receiver_file.timestamps[i] - sender_file.timestamps[i] = d

\* R latencies all equal to d, mean, min, max and median equal to d, and the
\* packet loss (S - R) / S * 100
AllLatenciesAre(d) ==
    LET l == metrics.latencies_ms
        p == metrics.packet_loss_percent
        S == sender_file.total
        R == receiver_file.total
    IN /\ Len(l) = R
       /\ \A i \in 1..Len(l) : l[i] = d
       /\ \A q \in {metrics.avg_latency_ms, metrics.min_latency_ms,
                    metrics.max_latency_ms, metrics.median_latency_ms} :
            q.per > 0 /\ q.num = d * q.per
       /\ S > 0 => (p.per > 0 /\ p.num * S = (S - R) * 100 * p.per)

\* C24 as stated: S sender timestamps with total_sent = S, R <= S receiver
\* timestamps with total_received = R, every pair differing by d: R
\* latencies equal to d, mean = min = max = median = d, loss (S - R)/S * 100.
C24_RoundTrip ==
    (AggComputed /\ RoundTrip) =>
        \A d \in Diffs : ConstantLatency(d) => AllLatenciesAre(d)

\* C24 amended: the same with at least one message received (1 <= R <= S).
C24_RoundTripAmended ==
    (AggComputed /\ RoundTrip /\ receiver_file.total >= 1) =>
        \A d \in Diffs : ConstantLatency(d) => AllLatenciesAre(d)

\* C24 witness: two messages sent at 0 and 1 and received at 1 and 2: two
\* latencies of 1, a mean of 2 / 2 and no loss.
C24_Witness ==
    /\ kind = "aggregator" /\ mainPc = "done"
    /\ sender_data.total = 2 /\ sender_data.timestamps = <<0, 1>>
    /\ receiver_data.total = 2 /\ receiver_data.timestamps = <<1, 2>>
    /\ metrics.latencies_ms = <<1, 1>>
    /\ metrics.avg_latency_ms = Quot(2, 2)
    /\ metrics.median_latency_ms = Quot(2, 2)
    /\ metrics.packet_loss_percent = Quot(0, 2)

\* C25: when the receiver report has no timestamps or total_received is 0,
\* calculate_metrics completes, the latency list is empty and the mean, min,
\* max and median latency are 0.
C25_EmptyLatencies ==
    (/\ kind = "aggregator"
     /\ WellFormed(sender_file) /\ WellFormed(receiver_file)
     /\ (receiver_file.timestamps = <<>> \/ receiver_file.total = 0)) =>
        /\ mainPc # "failed"
        /\ AggComputed =>
             /\ metrics.latencies_ms = <<>>
             /\ \A q \in {metrics.avg_latency_ms, metrics.min_latency_ms,
                          metrics.max_latency_ms, metrics.median_latency_ms} :
                  q = Quot(0, 1)

\* C25 witness: two messages sent and counted as received, the receiver's
\* series empty: the report is written with a mean latency of 0.
C25_Witness ==
    /\ kind = "aggregator" /\ mainPc = "done"
    /\ Len(sender_data.timestamps) = 2
    /\ receiver_data.total = 2 /\ receiver_data.timestamps = <<>>
    /\ metrics.latencies_ms = <<>>
    /\ metrics.avg_latency_ms = Quot(0, 1)

\* the fields of a report the aggregator reads (lines 22, 23, 32, 50, 89-94)
RequiredFields == {"total", "timestamps", "start_time", "end_time"}

\* a report file that is missing, is not valid JSON or lacks a required field
BadInput(f) == f.state # "ok" \/ f.lacks \in RequiredFields

\* C26: if the sender report or the receiver report is missing, is not valid
\* JSON or lacks a required field, generate_report does not complete and no
\* step writes the output file (an existing one is left as it was); no step
\* modifies the input files.
C26_BadInputFatal ==
    [][(kind = "aggregator" /\ (BadInput(sender_file) \/ BadInput(receiver_file))) =>
          (/\ mainPc' # "done"
           /\ output_file' = output_file
           /\ sender_file' = sender_file
           /\ receiver_file' = receiver_file)]_vars

(* ------------------------- claims on the senders ----------------------- *)
\* C30: with message_count = M > 0, sent_messages <= M in every reachable
\* state of every sender, for any number of workers and any interleaving.
C30_NeverMoreThanM ==
    (kind \in Senders /\ message_count > 0) => sent_messages <= message_count

\* C30 witness: two MQTT worker threads have sent one message each of a
\* count of two, and the sender has stopped at the limit.
C30_Witness ==
    /\ kind = "mqtt_sender" /\ message_count = 2 /\ concurrency = 2
    /\ attempts[1] = 1 /\ attempts[2] = 1
    /\ sent_messages = 2 /\ ~running

(* ------------------------- pacing of one worker ------------------------ *)
\* A worker of the MQTT or CoAP sender in time: clock is the time, the rate
\* is rate / RateDen messages per unit of time, the scheduler may delay the
\* worker at any point, and a sleep returns at or after its end.

\* expected_time - current_time, multiplied by the rate:
\* "thread_start_time + (local_seq / self.rate)" less "time.time()"
Ahead(start, k, r, now) == (start * r + k * RateDen) - now * r

\* "sleep_time = max(0, expected_time - current_time)", multiplied by the rate
SleepTime(start, k, r, now) ==
    IF Ahead(start, k, r, now) > 0 THEN Ahead(start, k, r, now) ELSE 0

PaceInit ==
    /\ kind \in {"mqtt_sender", "coap_sender"}
    /\ message_count \in 1..MaxPaced
    /\ duration = 0
    /\ rate \in 1..MaxRate
    /\ concurrency = 1
    /\ clock = 0
    /\ Constructed
    /\ mainPc = "start"
    /\ AuxIdle

\* time passes
PaceTime ==
    /\ clock < MaxTime /\ mainPc # "start"
    /\ clock' = clock + 1
    /\ UNCHANGED <<cfgVars, engVars, elapsed, wrkVars, httpVars, rcvVars, mainPc,
                   sigPc, reports, histVars, auxVars>>

\* send_messages begins (mqtt 56-61, coap 50-53): the transport is there,
\* the start reference is read
PaceStart ==
    /\ mainPc = "start"
    /\ mainPc' = "join"
    /\ thread_start_time' = clock
    /\ pc' = [pc EXCEPT ![1] = "loop"]
    /\ UNCHANGED <<cfgVars, engVars, envVars, lock, timestamp, reg, local_seq,
                   httpVars, rcvVars, sigPc, reports, histVars, seqs, payload_size,
                   payload, sender_file, receiver_file, sender_data, receiver_data,
                   metrics, output_file>>

\* the count limit is reached (mqtt 66-68, coap 57-59): stop, leave the loop
PaceLimit ==
    /\ pc[1] = "loop" /\ LoopCond(running)
    /\ LimitReached(message_count, sent_messages)
    /\ running' = Stopped(running)
    /\ reports' = Append(reports, Report(sent_messages, timestamps))
    /\ pc' = [pc EXCEPT ![1] = "done"]
    /\ mainPc' = "done"
    /\ UNCHANGED <<cfgVars, sent_messages, received_messages, timestamps, envVars,
                   lock, timestamp, reg, local_seq, httpVars, rcvVars, sigPc,
                   histVars, auxVars>>

\* mqtt 70-80: stamp, count, publish, advance local_seq
PaceSendMqtt ==
    /\ kind = "mqtt_sender" /\ pc[1] = "loop" /\ LoopCond(running)
    /\ ~LimitReached(message_count, sent_messages)
    /\ sent_messages' = Tick(sent_messages)
    /\ timestamps' = Record(timestamps, clock)
    /\ attempts' = [attempts EXCEPT ![1] = @ + 1]
    /\ local_seq' = [local_seq EXCEPT ![1] = @ + 1]
    /\ seqs' = Append(seqs, SeqOf(sent_messages'))
    /\ pc' = [pc EXCEPT ![1] = "pace"]
    /\ UNCHANGED <<cfgVars, running, received_messages, envVars, lock, timestamp,
                   reg, httpVars, rcvVars, mainPc, sigPc, reports, failedCounted,
                   afterStop, paced, late, stopCalls, sigRunning, toolVars>>

\* coap 61-71: stamp, count, send the request
PaceSendCoap ==
    /\ kind = "coap_sender" /\ pc[1] = "loop" /\ LoopCond(running)
    /\ ~LimitReached(message_count, sent_messages)
    /\ sent_messages' = Tick(sent_messages)
    /\ timestamps' = Record(timestamps, clock)
    /\ attempts' = [attempts EXCEPT ![1] = @ + 1]
    /\ seqs' = Append(seqs, SeqOf(sent_messages'))
    /\ pc' = [pc EXCEPT ![1] = "request"]
    /\ UNCHANGED <<cfgVars, running, received_messages, envVars, lock, timestamp,
                   reg, local_seq, httpVars, rcvVars, mainPc, sigPc, reports,
                   failedCounted, afterStop, paced, late, stopCalls, sigRunning,
                   toolVars>>

\* coap 71-73, 81: the response arrives, local_seq advances
PaceResponse ==
    /\ kind = "coap_sender" /\ pc[1] = "request"
    /\ local_seq' = [local_seq EXCEPT ![1] = @ + 1]
    /\ pc' = [pc EXCEPT ![1] = "pace"]
    /\ UNCHANGED <<cfgVars, engVars, envVars, lock, timestamp, reg, httpVars,
                   rcvVars, mainPc, sigPc, reports, histVars, auxVars>>

\* coap 74-79: timeout or transport error, "continue"
PaceFailure ==
    /\ kind = "coap_sender" /\ pc[1] = "request"
    /\ failedCounted' = TRUE
    /\ pc' = [pc EXCEPT ![1] = "loop"]
    /\ UNCHANGED <<cfgVars, engVars, envVars, lock, timestamp, reg, local_seq,
                   httpVars, rcvVars, mainPc, sigPc, reports, attempts, afterStop,
                   paced, late, stopCalls, sigRunning, auxVars>>

\* mqtt 85-90, coap 88-93: read the time, compute the sleep; the worker
\* sleeps only "if sleep_time > 0"
PaceCompute ==
    /\ pc[1] = "pace"
    /\ timestamp' = [timestamp EXCEPT ![1] = clock]
    /\ reg' = [reg EXCEPT ![1] = SleepTime(thread_start_time, local_seq[1], rate, clock)]
    /\ pc' = [pc EXCEPT ![1] = IF reg'[1] > 0 THEN "sleep" ELSE "loop"]
    /\ UNCHANGED <<cfgVars, engVars, envVars, lock, local_seq, httpVars, rcvVars,
                   mainPc, sigPc, reports, histVars, auxVars>>

\* time.sleep / asyncio.sleep returns once sleep_time has passed
PaceWake ==
    /\ pc[1] = "sleep"
    /\ (clock - timestamp[1]) * rate >= reg[1]
    /\ pc' = [pc EXCEPT ![1] = "loop"]
    /\ UNCHANGED <<cfgVars, engVars, envVars, lock, timestamp, reg, local_seq,
                   httpVars, rcvVars, mainPc, sigPc, reports, histVars, auxVars>>

PaceNext ==
    \/ PaceTime
    \/ PaceStart
    \/ PaceLimit
    \/ PaceSendMqtt
    \/ PaceSendCoap
    \/ PaceResponse
    \/ PaceFailure
    \/ PaceCompute
    \/ PaceWake

PaceSpec == PaceInit /\ [][PaceNext]_vars

\* the k-th send of the worker, k counted from 0, is not before
\* thread_start_time + k / rate
OnSchedule(k) == timestamps[k + 1] * rate >= thread_start_time * rate + k * RateDen

\* C27: with rate > 0 the sleep a worker computes is never negative and its
\* k-th send (k from 0) never happens before thread_start_time + k / rate.
C27_NeverAheadOfSchedule ==
    /\ reg[1] >= 0
    /\ \A k \in 0..(Len(timestamps) - 1) : OnSchedule(k)

(* ------------------ senders whose transport may fail ------------------- *)
\* the worker has not yet reached its loop: the transport is acquired first
BeforeLoop(w) == pc[w] = "loop" /\ attempts[w] = 0 /\ local_seq[w] = 0

\* mqtt_sender.py line 57: client.connect raises in the worker thread; the
\* exception ends that thread only
MqttConnectFails(w) ==
    /\ kind = "mqtt_sender" /\ BeforeLoop(w)
    /\ pc' = [pc EXCEPT ![w] = "crashed"]
    /\ UNCHANGED <<cfgVars, engVars, envVars, lock, timestamp, reg, local_seq,
                   mainPc, sigPc, reports, histVars, httpVars, rcvVars, auxVars>>

\* coap_sender.py line 51: Context.create_client_context raises in the
\* worker task; the exception is kept in the task
CoapContextFails(w) ==
    /\ kind = "coap_sender" /\ BeforeLoop(w)
    /\ pc' = [pc EXCEPT ![w] = "crashed"]
    /\ UNCHANGED <<cfgVars, engVars, envVars, lock, timestamp, reg, local_seq,
                   mainPc, sigPc, reports, histVars, httpVars, rcvVars, auxVars>>

\* coap_sender.py line 145: asyncio.gather raises the exception of a task;
\* run() ends with it and asyncio.run cancels the other tasks
CoapGatherRaises ==
    /\ kind = "coap_sender" /\ mainPc = "join"
    /\ \E w \in Workers : pc[w] = "crashed"
    /\ mainPc' = "failed"
    /\ pc' = [w \in Workers |-> IF Finished(w) THEN pc[w] ELSE "dead"]
    /\ lock' = 0
    /\ UNCHANGED <<cfgVars, engVars, envVars, timestamp, reg, local_seq,
                   sigPc, reports, histVars, httpVars, rcvVars, auxVars>>

ConnectInit == Init /\ kind \in {"mqtt_sender", "coap_sender"}

ConnectNext ==
    \/ Elapse
    \/ MqttSenderNext
    \/ CoapSenderNext
    \/ \E w \in Workers : MqttConnectFails(w)
    \/ \E w \in Workers : CoapContextFails(w)
    \/ CoapGatherRaises

ConnectSpec == ConnectInit /\ [][ConnectNext]_vars

\* C28: once a worker of the MQTT or CoAP sender has failed to acquire its
\* transport, no step of the run writes a sender report, whatever the count,
\* duration and rate settings (stated for runs that no signal interrupts and
\* for the calls of stop() the run itself makes).
C28_NoReportAfterConnectFailure ==
    [][(/\ \E w \in Workers : pc[w] = "crashed"
        /\ sigPc' = "none" /\ stopCalls' = stopCalls) => reports' = reports]_vars

(* --------------------------- generate_payload -------------------------- *)
\* length of json.dumps(sensor_data) without the digits of seq and without
\* the text of the timestamp
FixedLen == 191

\* length of datetime.now().isoformat(), and the same when microsecond is 0
IsoLen == 26
IsoLenWhole == 19

\* length json.dumps adds for the padding field besides the padding itself:
\* the separator, the key, and the quotes of the value
PaddingFieldLen == 15

\* the number of decimal digits of a sequence number
Digits(n) == IF n < 10 THEN 1 ELSE IF n < 100 THEN 2 ELSE 3

\* "current_size = len(base_payload.encode('utf-8'))": every character of
\* the payload is one byte
CurrentSize(n, iso) == FixedLen + Digits(n) + iso

\* "padding_size = max(0, self.payload_size - current_size)"
PaddingSize(size, current) == IF size - current > 0 THEN size - current ELSE 0

\* generate_payload, mqtt 26-53, coap 26-48: the byte length of the result,
\* with the sizes it was computed from
GeneratePayloadOf(n, iso, size) ==
    LET current == CurrentSize(n, iso)
        padding == PaddingSize(size, current)
    IN [current_size |-> current,
        padding_size |-> padding,
        length |-> IF padding > 0 THEN current + PaddingFieldLen + padding
                   ELSE current]

\* a worker is about to build the payload of message sent_messages
PayloadInit ==
    /\ kind \in {"mqtt_sender", "coap_sender"}
    /\ message_count = 0
    /\ duration = 0
    /\ rate = 0
    /\ concurrency = 1
    /\ clock = 1
    /\ running = TRUE
    /\ sent_messages \in 1..MaxSeqNo
    /\ received_messages = 0
    /\ timestamps = <<>>
    /\ elapsed = FALSE
    /\ lock = 0
    /\ pc = [w \in Workers |-> "idle"]
    /\ timestamp = [w \in Workers |-> 0]
    /\ reg = [w \in Workers |-> 0]
    /\ local_seq = [w \in Workers |-> 0]
    /\ sigPc = "none"
    /\ reports = <<>>
    /\ seq = 0
    /\ tasks = <<>>
    /\ taskTs = <<>>
    /\ semaphore = 0
    /\ shutdown_event = FALSE
    /\ handlerPc = "idle"
    /\ monPc = "none"
    /\ triggers = 0
    /\ serving = FALSE
    /\ failedCounted = FALSE
    /\ attempts = [w \in Workers |-> 0]
    /\ afterStop = [w \in Workers |-> 0]
    /\ paced = [w \in Workers |-> TRUE]
    /\ late = {}
    /\ stopCalls = 0
    /\ sigRunning = FALSE
    /\ mainPc = "payload"
    /\ thread_start_time = 0
    /\ payload_size \in 0..MaxPayloadSize
    /\ payload = 0
    /\ sender_file = None /\ receiver_file = None
    /\ sender_data = None /\ receiver_data = None
    /\ metrics = None /\ output_file = None
    /\ seqs = <<>>

\* mqtt line 74, coap line 65: generate_payload(self.sent_messages); the
\* clock decides the length of the timestamp's text
GeneratePayload ==
    /\ mainPc = "payload"
    /\ \E iso \in {IsoLen, IsoLenWhole} :
         payload' = GeneratePayloadOf(sent_messages, iso, payload_size)
    /\ mainPc' = "done"
    /\ UNCHANGED <<cfgVars, engVars, envVars, wrkVars, httpVars, rcvVars, sigPc,
                   reports, histVars, seqs, thread_start_time, payload_size,
                   sender_file, receiver_file, sender_data, receiver_data,
                   metrics, output_file>>

PayloadSpec == PayloadInit /\ [][GeneratePayload]_vars

\* C29: for every sequence number and every target payload_size, the
\* encoded payload has payload_size bytes whenever payload_size is larger
\* than the unpadded payload, and the unpadded length, with no padding,
\* otherwise.
C29_PaddedToTarget ==
    mainPc = "done" =>
        IF payload_size > payload.current_size
        THEN payload.length = payload_size
        ELSE payload.length = payload.current_size /\ payload.padding_size = 0

(* ---------------- claims on reports, termination and seq --------------- *)
\* C31: once an engine's report has been written, no step increments the
\* counter or appends a timestamp: the engine's final counter and series are
\* the total and the timestamps of the written report.
C31_FrozenAfterReport ==
    [][Len(reports) >= 1 =>
          /\ sent_messages' = sent_messages
          /\ received_messages' = received_messages
          /\ timestamps' = timestamps]_vars

\* a sender started with a count limit, the count derived from rate and
\* duration being one the model records in full
SenderInit ==
    /\ Init
    /\ kind \in Senders /\ message_count > 0
    /\ DerivedCount(rate, duration, concurrency) <= MaxSent

SenderNext ==
    \/ Elapse
    \/ MqttSenderNext
    \/ CoapSenderNext
    \/ HttpSenderNext

\* the scheduler runs every thread and task that can take a step, time
\* passes, and every request ends with a response, an error or its timeout;
\* signals and further calls of stop() need not happen
SenderFairness ==
    /\ WF_vars(Elapse)
    /\ WF_vars(MqttRunStart)
    /\ \A w \in Workers :
         /\ WF_vars(MqttLoop(w))
         /\ WF_vars(MqttAcquire(w))
         /\ WF_vars(MqttRead(w))
         /\ WF_vars(MqttWrite(w))
         /\ WF_vars(MqttAppend(w))
         /\ WF_vars(MqttPace(w))
         /\ WF_vars(MqttWorkerStopCheck(w))
         /\ WF_vars(MqttWorkerStopSet(w))
         /\ WF_vars(MqttWorkerStopReport(w))
         /\ WF_vars(CoapLoop(w))
         /\ WF_vars(CoapLimit(w))
         /\ WF_vars(CoapRecord(w))
         /\ WF_vars(CoapResponse(w) \/ CoapFailure(w))
         /\ WF_vars(CoapPace(w))
    /\ WF_vars(MqttMainWake)
    /\ WF_vars(MqttMainStopCheck)
    /\ WF_vars(MqttMainStopSet)
    /\ WF_vars(MqttMainStopReport)
    /\ WF_vars(MqttJoin)
    /\ WF_vars(MqttSigStopCheck)
    /\ WF_vars(MqttSigStopSet)
    /\ WF_vars(MqttSigStopReport)
    /\ WF_vars(CoapRunStart)
    /\ WF_vars(CoapMainStop)
    /\ WF_vars(CoapGather)
    /\ WF_vars(HttpRunStart)
    /\ WF_vars(HttpLoopTest)
    /\ WF_vars(HttpSchedule)
    /\ WF_vars(HttpPace)
    /\ \A i \in 1..MaxSent :
         /\ WF_vars(HttpTaskStart(i))
         /\ WF_vars(HttpTaskAcquire(i))
         /\ WF_vars(HttpTaskResponse(i))
    /\ WF_vars(HttpFinish)

SenderSpec == SenderInit /\ [][SenderNext]_vars /\ SenderFairness

\* every worker has left its loop, run() has returned (or the process has
\* ended) and the report is written
SenderTerminated ==
    /\ Exited
    /\ \A w \in Workers : Finished(w)
    /\ Len(reports) >= 1

\* C32: a sender started with message_count = M > 0 terminates under fair
\* scheduling, for any concurrency and any pattern of transport failures:
\* in every run that no signal interrupts, every worker eventually has left
\* its loop (none stays blocked on the lock), run() has returned and the
\* report has been written.
C32_SenderTerminates == <>(sigPc # "none" \/ SenderTerminated)

\* C32 witness: two MQTT worker threads and a count of two: one thread
\* called stop() at the limit with the lock held and ended in it, the other
\* got the lock afterwards and returned; the main thread has joined both and
\* the report is there.
C32_Witness ==
    /\ kind = "mqtt_sender" /\ concurrency = 2 /\ message_count = 2
    /\ sigPc = "none" /\ SenderTerminated
    /\ sent_messages = 2 /\ failedCounted
    /\ pc[1] = "dead" /\ pc[2] = "done" /\ lock = 0

\* C33: the HTTP sender writes at most one report, writes it only after its
\* scheduling loop has ended and every scheduled send task has completed (no
\* task is in flight when the report is there), and has written exactly one
\* when run() has returned.
C33_HttpReportAfterTasks ==
    kind = "http_sender" =>
        /\ Len(reports) <= 1
        /\ Len(reports) = 1 =>
             /\ mainPc = "done"
             /\ \A i \in TaskIds : tasks[i] = "done"
        /\ mainPc = "done" => Len(reports) = 1

\* C33 witness: two send tasks were scheduled, one counted and one failed,
\* both have completed and the one report is written.
C33_Witness ==
    /\ kind = "http_sender" /\ mainPc = "done"
    /\ Len(tasks) = 2 /\ tasks[1] = "done" /\ tasks[2] = "done"
    /\ sent_messages = 1
    /\ Len(reports) = 1 /\ reports[1].total = 1

\* the send tasks between acquiring and releasing the semaphore
Posting == {i \in TaskIds : tasks[i] = "posting"}

\* C34: in the HTTP sender the number of send tasks that hold the semaphore
\* (a POST in flight) is at most concurrency in every state, however many
\* send tasks have been scheduled.
C34_PostsWithinConcurrency ==
    kind = "http_sender" => Cardinality(Posting) <= concurrency

\* C34 witness: with concurrency 1 two tasks are scheduled; one posts, the
\* other waits for the semaphore.
C34_Witness ==
    /\ kind = "http_sender" /\ concurrency = 1
    /\ Len(tasks) = 2 /\ tasks[1] = "posting" /\ tasks[2] = "wait_sem"
    /\ semaphore = 0

\* the CoAP workers that wait for the response of their request
Requesting == {w \in Workers : pc[w] = "request"}

\* C35: in the CoAP sender a worker waits for its response with the shared
\* lock held: at most one worker has a request in flight in any state, and
\* while one waits (for the response or the timeout) no other worker sends.
C35_OneRequestInFlight ==
    /\ [](kind = "coap_sender" =>
            /\ Cardinality(Requesting) <= 1
            /\ \A w \in Requesting : lock = w)
    /\ [][(kind = "coap_sender" /\ \E w \in Requesting : pc'[w] = "request")
            => sent_messages' = sent_messages /\ timestamps' = timestamps]_vars

\* C35 witness: of two CoAP workers one waits for its response with the
\* lock held, the other has passed the loop test and waits for the lock.
C35_Witness ==
    /\ kind = "coap_sender" /\ concurrency = 2
    /\ pc[1] = "request" /\ lock = 1
    /\ pc[2] = "acquire"

\* C36: when a receiver with message_count = M > 0 is shut down by its
\* count (no duration, no signal), the written report has total_received
\* >= M: the total is not capped at M, messages that arrive between the
\* threshold and the main task's or thread's stop are counted as well.
C36_CountShutdownAtLeastM ==
    (/\ kind \in Receivers /\ message_count > 0
     /\ duration = 0 /\ sigPc = "none"
     /\ Len(reports) >= 1) => reports[1].total >= message_count

\* C36 witness: a CoAP receiver with a count of two has written its report
\* with three messages: the third arrived after the threshold was met and
\* before the main task stopped the receiver.
C36_Witness ==
    /\ kind = "coap_receiver" /\ message_count = 2
    /\ duration = 0 /\ sigPc = "none"
    /\ Len(reports) = 1 /\ reports[1].total = 3
    /\ Len(reports[1].timestamps) = 3

\* C37: in the MQTT and CoAP senders the seq field of each payload is the
\* value of sent_messages right after its increment under the lock: the k-th
\* payload built carries seq k, so the sequence numbers used so far are
\* exactly 1..Len(seqs), each once, and once no worker stands between the
\* increment and the payload, they are exactly 1..sent_messages.
Building == {w \in Workers : pc[w] = "append"}

C37_SeqsAreOneToM ==
    kind \in {"mqtt_sender", "coap_sender"} =>
        /\ \A i \in 1..Len(seqs) : seqs[i] = i
        /\ Len(seqs) = sent_messages - Cardinality(Building)

C37_Witness ==
    /\ kind = "mqtt_sender" /\ concurrency = 2
    /\ seqs = <<1, 2>> /\ sent_messages = 2
    /\ Len(timestamps) = 2
    /\ Len(reports) = 1 /\ reports[1].total = 2

====
